---- MODULE Spec2Model ----
(***************************************************************************)
(* Pixel-buffer core of split-image: seam detection (detectSeamsLocal /    *)
(* detectAxis), magic-wand flood fill (floodFill) and the largest          *)
(* connected component filter applied to a SAM logit mask.                 *)
(*                                                                         *)
(* Arithmetic.  The source computes in IEEE doubles.  Every comparison of  *)
(* the source is modelled here in exact integer arithmetic after clearing  *)
(* denominators, e.g.  variance < T  with                                  *)
(*   variance = sumSq/count - (sum/count)^2,  val = (r+g+b)/3              *)
(* becomes  count*S2 - S1*S1 < 9*T*count*count  with S1, S2 the sums of    *)
(* (r+g+b) and (r+g+b)^2.  The rounding of the doubles, and of the         *)
(* Float32Array that holds the variances, is not modelled: an exact        *)
(* variance differs from an integer threshold by at least 1/(9*count^2),   *)
(* far above the rounding error for the line lengths used here.            *)
(***************************************************************************)
EXTENDS Integers, Sequences, FiniteSets, TLC

VARIABLES
    imageData,   \* the ImageData handed to detectAxis: [width, height, data]
    rowSplits,   \* result of detectAxis(imageData, HORIZONTAL)
    colSplits,   \* result of detectAxis(imageData, VERTICAL)
    seamsDone,   \* TRUE once detectSeamsLocal has resolved
    pixels,      \* the canvas buffer floodFill works on: [width, height, data]
    lastFill,    \* record of the last floodFill call (history)
    fillCall,    \* the floodFill call in progress: its position and locals
    mask,        \* the logit mask handed to largestComponent: [width, height, values]
    maskResult,  \* what largestComponent returned: [status, values]
    history,     \* ImageEditor: the image sources, oldest first
    currentStep, \* ImageEditor: 0-based index of the current source in history
    mode,        \* ImageEditor: the edit mode, or "null"
    isLoading,   \* ImageEditor: the loading overlay is shown
    samPoints,   \* ImageEditor: the clicked segmentation points
    samMask,     \* ImageEditor: the generated mask [data, width, height], if present
    bgJobs,      \* handleAutoRemoveBg calls at their await, each with its render's state
    lastOp,      \* the last ImageEditor handler that ran, with the state before it (history)
    samState,    \* samService: the module-level state record
    loads,       \* samService: the invocations of loadSAMModel, by id
    activeDrag,  \* SplitEditor: the split line being dragged, [type, index]
    resultImages, \* App: the sizes <<w, h>> of the images executeSplits produced
    workerSam,   \* sam.worker: its samState
    cacheCheckDone, \* sam.worker: the flag of ensureCacheChecked
    requests     \* sam.worker: the invocations of self.onmessage, by id

seamVars == <<imageData, rowSplits, colSplits, seamsDone>>

fillVars == <<pixels, lastFill, fillCall>>

maskVars == <<mask, maskResult>>

editorVars ==
    <<history, currentStep, mode, isLoading, samPoints, samMask, bgJobs, lastOp>>

coreVars == <<seamVars, fillVars, maskVars>>

loaderVars == <<samState, loads>>

splitVars == <<activeDrag, resultImages>>

workerVars == <<workerSam, cacheCheckDone, requests>>

uiVars == <<editorVars, loaderVars, splitVars, workerVars>>

outsideEditor == <<coreVars, loaderVars, splitVars, workerVars>>

outsideLoader == <<coreVars, editorVars, splitVars, workerVars>>

vars == <<coreVars, uiVars>>

(***************************************************************************)
(* Generic helpers                                                         *)
(***************************************************************************)
Abs(x) == IF x < 0 THEN -x ELSE x

Max2(a, b) == IF a > b THEN a ELSE b

Min2(a, b) == IF a < b THEN a ELSE b

\* the sum of f[lo..hi], by halving the range
RECURSIVE SumRange(_, _, _)
SumRange(f, lo, hi) ==
    IF lo > hi THEN 0
    ELSE IF lo = hi THEN f[lo]
    ELSE SumRange(f, lo, (lo + hi) \div 2) + SumRange(f, ((lo + hi) \div 2) + 1, hi)

SumSeq(s) == SumRange(s, 1, Len(s))

\* the set of elements of a sequence
Range(s) == {s[k] : k \in 1..Len(s)}

(***************************************************************************)
(* PixelSampler: strided access along an axis                              *)
(***************************************************************************)
Limit(img, isHorizontal) == IF isHorizontal THEN img.height ELSE img.width

CrossLimit(img, isHorizontal) == IF isHorizontal THEN img.width ELSE img.height

\* idx of cross-pixel j of line i
PixelIdx(img, isHorizontal, i, j) ==
    IF isHorizontal THEN (i * img.width + j) * 4 ELSE (j * img.width + i) * 4

\* for (let j = 0; j < crossLimit; j += step): the j visited, in order
SampleSeq(crossLimit, step) ==
    [k \in 1..((crossLimit + step - 1) \div step) |-> (k - 1) * step]

Channel(img, isHorizontal, i, j, ch) == img.data[PixelIdx(img, isHorizontal, i, j) + ch]

\* 3 * val of the source: data[idx] + data[idx+1] + data[idx+2]
Gray3(img, isHorizontal, i, j) ==
    Channel(img, isHorizontal, i, j, 0) + Channel(img, isHorizontal, i, j, 1)
        + Channel(img, isHorizontal, i, j, 2)

varianceStep == 4

\* variances[i] as the exact fraction num/den (den = 9*count^2 > 0)
VarianceNum(img, isHorizontal, i) ==
    LET js == SampleSeq(CrossLimit(img, isHorizontal), varianceStep)
        count == Len(js)
        s1 == SumSeq([k \in 1..count |-> Gray3(img, isHorizontal, i, js[k])])
        s2 == SumSeq([k \in 1..count |->
                  Gray3(img, isHorizontal, i, js[k]) * Gray3(img, isHorizontal, i, js[k])])
    IN  count * s2 - s1 * s1

VarianceDen(img, isHorizontal) ==
    LET count == Len(SampleSeq(CrossLimit(img, isHorizontal), varianceStep))
    IN  9 * count * count

\* variances[i] < threshold
VarianceBelow(img, isHorizontal, i, threshold) ==
    VarianceNum(img, isHorizontal, i) < threshold * VarianceDen(img, isHorizontal)

(***************************************************************************)
(* Loops over lines are folded by halving the index range, so that the     *)
(* evaluation depth stays logarithmic in the image size; the loop body is  *)
(* the ...Step operator, applied to the indices in increasing order.  The  *)
(* test between the two halves is a loop invariant (always true): it makes *)
(* TLC evaluate the left half before it descends into the right one.       *)
(*                                                                         *)
(* Run scanning shared by the gap and the background-coverage loops: a     *)
(* qualifying line opens a run, a non-qualifying one closes it and pushes  *)
(* floor((start+end)/2) when end - start >= minSpan; a run still open      *)
(* after the loop is closed at limit-1.                                    *)
(***************************************************************************)
RunStep(st, inRun, minSpan, i) ==
    IF inRun[i]
    THEN IF ~st.open THEN [st EXCEPT !.open = TRUE, !.start = i] ELSE st
    ELSE IF st.open
         THEN [st EXCEPT !.open = FALSE,
                         !.acc = IF (i - 1) - st.start >= minSpan
                                 THEN Append(@, (st.start + (i - 1)) \div 2)
                                 ELSE @]
         ELSE st

RECURSIVE RunFold(_, _, _, _, _)
RunFold(st, inRun, minSpan, lo, hi) ==
    IF lo > hi THEN st
    ELSE IF lo = hi THEN RunStep(st, inRun, minSpan, lo)
    ELSE LET mid == (lo + hi) \div 2
             left == RunFold(st, inRun, minSpan, lo, mid)
         IN  IF left.start >= 0 THEN RunFold(left, inRun, minSpan, mid + 1, hi) ELSE left

\* variant of the scan that forgets the run still open after the loop
RunScanClosedOnly(inRun, limit, minSpan) ==
    RunFold([open |-> FALSE, start |-> 0, acc |-> <<>>],
            inRun, minSpan, 0, limit - 1).acc

RunScan(inRun, limit, minSpan) ==
    LET st == RunFold([open |-> FALSE, start |-> 0, acc |-> <<>>],
                      inRun, minSpan, 0, limit - 1)
    IN  IF st.open /\ (limit - 1) - st.start >= minSpan
        THEN Append(st.acc, (st.start + (limit - 1)) \div 2)
        ELSE st.acc

(***************************************************************************)
(* Method 1: gap detection (low variance)                                  *)
(***************************************************************************)
gapThreshold == 100

gapMinSpan == 2

Gaps(img, isHorizontal) ==
    LET limit == Limit(img, isHorizontal)
        low == [i \in 0..(limit - 1) |-> VarianceBelow(img, isHorizontal, i, gapThreshold)]
    IN  RunScan(low, limit, gapMinSpan)

(***************************************************************************)
(* Method 3: background colour (mode of quantised border samples) and      *)
(* background coverage                                                     *)
(***************************************************************************)
PixelAt(img, x, y) ==
    LET idx == (y * img.width + x) * 4
    IN  [r |-> img.data[idx], g |-> img.data[idx + 1], b |-> img.data[idx + 2]]

edgeSamplesPerSide == 50

\* Math.max(1, Math.floor(n / 50))
EdgeStride(n) == Max2(1, n \div edgeSamplesPerSide)

\* edgeSamples in push order: (top, bottom) for each sampled x, then
\* (left, right) for each sampled y
EdgeSamples(img) ==
    LET xs == SampleSeq(img.width, EdgeStride(img.width))
        ys == SampleSeq(img.height, EdgeStride(img.height))
        tb == [k \in 1..(2 * Len(xs)) |->
                 IF k % 2 = 1 THEN PixelAt(img, xs[(k + 1) \div 2], 0)
                 ELSE PixelAt(img, xs[k \div 2], img.height - 1)]
        lr == [k \in 1..(2 * Len(ys)) |->
                 IF k % 2 = 1 THEN PixelAt(img, 0, ys[(k + 1) \div 2])
                 ELSE PixelAt(img, img.width - 1, ys[k \div 2])]
    IN  tb \o lr

bucketWidth == 10

BucketKey(c) == <<c.r \div bucketWidth, c.g \div bucketWidth, c.b \div bucketWidth>>

defaultBgColor == [r |-> 255, g |-> 255, b |-> 255]

\* variant of the loop body that keeps the sample already chosen while its
\* own bucket stays in the lead
ModeStepKeepFirst(st, c) ==
    LET key == BucketKey(c)
        n == (IF key \in DOMAIN st.colorBuckets THEN st.colorBuckets[key] ELSE 0) + 1
        next == (key :> n) @@ st.colorBuckets
    IN  IF n > st.maxCount
        THEN [colorBuckets |-> next, maxCount |-> n,
              bgColor |-> IF n > 1 /\ BucketKey(st.bgColor) = key THEN st.bgColor ELSE c]
        ELSE [st EXCEPT !.colorBuckets = next]

\* body of the for-of loop over edgeSamples: count the sample's bucket; the
\* sample becomes bgColor when its bucket's count exceeds maxCount
ModeStep(st, c) ==
    LET key == BucketKey(c)
        n == (IF key \in DOMAIN st.colorBuckets THEN st.colorBuckets[key] ELSE 0) + 1
        next == (key :> n) @@ st.colorBuckets
    IN  IF n > st.maxCount
        THEN [colorBuckets |-> next, maxCount |-> n, bgColor |-> c]
        ELSE [st EXCEPT !.colorBuckets = next]

RECURSIVE ModeFold(_, _, _, _)
ModeFold(st, samples, lo, hi) ==
    IF lo > hi THEN st
    ELSE IF lo = hi THEN ModeStep(st, samples[lo])
    ELSE LET mid == (lo + hi) \div 2
             left == ModeFold(st, samples, lo, mid)
         IN  IF left.maxCount >= 0 THEN ModeFold(left, samples, mid + 1, hi) ELSE left

BgColorOf(samples) ==
    ModeFold([colorBuckets |-> <<>>, maxCount |-> 0, bgColor |-> defaultBgColor],
             samples, 1, Len(samples)).bgColor

BgColor(img) == BgColorOf(EdgeSamples(img))

bgThreshold == 30

coverageThresholdPct == 98

coverageStep == 4

bgMinSpan == 1

\* |r-bg.r| < 30 && |g-bg.g| < 30 && |b-bg.b| < 30 for cross-pixel j of line i
MatchesBg(img, isHorizontal, i, j, bg) ==
    /\ Abs(Channel(img, isHorizontal, i, j, 0) - bg.r) < bgThreshold
    /\ Abs(Channel(img, isHorizontal, i, j, 1) - bg.g) < bgThreshold
    /\ Abs(Channel(img, isHorizontal, i, j, 2) - bg.b) < bgThreshold

\* coverage >= coverageThreshold, i.e. bgMatchCount/totalCount >= 0.98
Covered(img, isHorizontal, i, bg) ==
    LET js == SampleSeq(CrossLimit(img, isHorizontal), coverageStep)
        bgMatchCount == Cardinality({k \in 1..Len(js) :
                                        MatchesBg(img, isHorizontal, i, js[k], bg)})
    IN  100 * bgMatchCount >= coverageThresholdPct * Len(js)

\* variant of the background scan that applies the span test of the gap scan
BgGapsGapSpan(img, isHorizontal) ==
    LET limit == Limit(img, isHorizontal)
        bg == BgColor(img)
        cov == [i \in 0..(limit - 1) |-> Covered(img, isHorizontal, i, bg)]
    IN  RunScan(cov, limit, gapMinSpan)

BgGaps(img, isHorizontal) ==
    LET limit == Limit(img, isHorizontal)
        bg == BgColor(img)
        cov == [i \in 0..(limit - 1) |-> Covered(img, isHorizontal, i, bg)]
    IN  RunScan(cov, limit, bgMinSpan)

(***************************************************************************)
(* Method 4: solid lines                                                   *)
(***************************************************************************)
solidLineThreshold == 30

solidStep == 2

quantWidth == 32

maxUniqueColors == 3

\* variant of the solid-line test without the comparison to the background
IsSolidLineAnyColor(img, isHorizontal, i, bg) ==
    LET js == SampleSeq(CrossLimit(img, isHorizontal), solidStep)
        uniqueColors == {<<Channel(img, isHorizontal, i, js[k], 0) \div quantWidth,
                           Channel(img, isHorizontal, i, js[k], 1) \div quantWidth,
                           Channel(img, isHorizontal, i, js[k], 2) \div quantWidth>> :
                            k \in 1..Len(js)}
    IN  /\ VarianceBelow(img, isHorizontal, i, solidLineThreshold)
        /\ Cardinality(uniqueColors) <= maxUniqueColors

IsSolidLine(img, isHorizontal, i, bg) ==
    LET js == SampleSeq(CrossLimit(img, isHorizontal), solidStep)
        count == Len(js)
        uniqueColors == {<<Channel(img, isHorizontal, i, js[k], 0) \div quantWidth,
                           Channel(img, isHorizontal, i, js[k], 1) \div quantWidth,
                           Channel(img, isHorizontal, i, js[k], 2) \div quantWidth>> :
                            k \in 1..count}
        rSum == SumSeq([k \in 1..count |-> Channel(img, isHorizontal, i, js[k], 0)])
        gSum == SumSeq([k \in 1..count |-> Channel(img, isHorizontal, i, js[k], 1)])
        bSum == SumSeq([k \in 1..count |-> Channel(img, isHorizontal, i, js[k], 2)])
        \* |rAvg - bg.r| < 30 with rAvg = rSum/count, times count
        isBg == /\ Abs(rSum - bg.r * count) < bgThreshold * count
                /\ Abs(gSum - bg.g * count) < bgThreshold * count
                /\ Abs(bSum - bg.b * count) < bgThreshold * count
    IN  /\ VarianceBelow(img, isHorizontal, i, solidLineThreshold)
        /\ Cardinality(uniqueColors) <= maxUniqueColors
        /\ ~isBg

SolidLines(img, isHorizontal) ==
    LET limit == Limit(img, isHorizontal)
        bg == BgColor(img)
        solid == [i \in 0..(limit - 1) |-> IsSolidLine(img, isHorizontal, i, bg)]
    IN  SelectSeq([k \in 1..limit |-> k - 1], LAMBDA i : solid[i])

\* body of the grouping loop: a line more than 1 after prev closes the group
MergeStep(st, line) ==
    IF line - st.prev > 1
    THEN [start |-> line, prev |-> line,
          acc |-> Append(st.acc, (st.start + st.prev) \div 2)]
    ELSE [st EXCEPT !.prev = line]

RECURSIVE MergeFold(_, _, _, _)
MergeFold(st, solidLines, lo, hi) ==
    IF lo > hi THEN st
    ELSE IF lo = hi THEN MergeStep(st, solidLines[lo])
    ELSE LET mid == (lo + hi) \div 2
             left == MergeFold(st, solidLines, lo, mid)
         IN  IF left.prev >= left.start THEN MergeFold(left, solidLines, mid + 1, hi) ELSE left

MergeLines(solidLines) ==
    IF Len(solidLines) > 0
    THEN LET st == MergeFold([start |-> solidLines[1], prev |-> solidLines[1],
                              acc |-> <<>>], solidLines, 2, Len(solidLines))
         IN  Append(st.acc, (st.start + st.prev) \div 2)
    ELSE <<>>

MergedSolidLines(img, isHorizontal) == MergeLines(SolidLines(img, isHorizontal))

(***************************************************************************)
(* Combine & filter                                                        *)
(***************************************************************************)
solidScore == 200

bgScore == 100

gapScore == 50

bgNearDist == 10

Cand(pos, score, type) == [pos |-> pos, score |-> score, type |-> type]

\* variant of the background-gap merge that adds every gap
RECURSIVE AddBgGapsAll(_, _)
AddBgGapsAll(candidates, bgGaps) ==
    IF bgGaps = <<>> THEN candidates
    ELSE AddBgGapsAll(Append(candidates, Cand(Head(bgGaps), bgScore, "bg")), Tail(bgGaps))

\* for (const gap of bgGaps) if (!candidates.some(|c.pos - gap| < 10)) push
RECURSIVE AddBgGaps(_, _)
AddBgGaps(candidates, bgGaps) ==
    IF bgGaps = <<>> THEN candidates
    ELSE LET gap == Head(bgGaps)
         IN  IF \E k \in 1..Len(candidates) : Abs(candidates[k].pos - gap) < bgNearDist
             THEN AddBgGaps(candidates, Tail(bgGaps))
             ELSE AddBgGaps(Append(candidates, Cand(gap, bgScore, "bg")), Tail(bgGaps))

\* the candidate list before sorting: solid, then bg, then the gap fallback
Combine(mergedSolidLines, bgGaps, gaps) ==
    LET solid == [k \in 1..Len(mergedSolidLines) |->
                     Cand(mergedSolidLines[k], solidScore, "solid")]
        strong == AddBgGaps(solid, bgGaps)
    IN  IF Len(strong) = 0
        THEN [k \in 1..Len(gaps) |-> Cand(gaps[k], gapScore, "gap")]
        ELSE strong

\* candidates.sort((a, b) => a.pos - b.pos), stable
RECURSIVE InsertByPos(_, _)
InsertByPos(sorted, c) ==
    IF sorted = <<>> THEN <<c>>
    ELSE IF c.pos < Head(sorted).pos THEN <<c>> \o sorted
         ELSE <<Head(sorted)>> \o InsertByPos(Tail(sorted), c)

RECURSIVE SortByPos(_)
SortByPos(s) ==
    IF s = <<>> THEN <<>>
    ELSE InsertByPos(SortByPos(SubSeq(s, 1, Len(s) - 1)), s[Len(s)])

marginPct == 2

\* c.pos > margin && c.pos < limit - margin, margin = limit * 0.02
InsideMargin(pos, limit) ==
    /\ 100 * pos > marginPct * limit
    /\ 100 * pos < (100 - marginPct) * limit

\* variant without the border filter: every candidate passes
FilterBordersOff(candidates, limit) == candidates

FilterBorders(candidates, limit) ==
    SelectSeq(candidates, LAMBDA c : InsideMargin(c.pos, limit))

maxItemsPerAxis == 8

\* variant of the distance test with limit / 16 as the minimum
AtLeastMinDistSixteenth(d, limit) == 2 * maxItemsPerAxis * d >= limit

\* d >= absoluteMinDist, absoluteMinDist = limit / 8
AtLeastMinDist(d, limit) == maxItemsPerAxis * d >= limit

RECURSIVE ThinScan(_, _, _, _)
ThinScan(candidates, i, filtered, limit) ==
    IF i > Len(candidates) THEN filtered
    ELSE IF AtLeastMinDist(candidates[i].pos - filtered[Len(filtered)].pos, limit)
         THEN ThinScan(candidates, i + 1, Append(filtered, candidates[i]), limit)
         ELSE ThinScan(candidates, i + 1, filtered, limit)

\* variant without the thinning pass
ThinOff(candidates, limit) == candidates

\* if (candidates.length > 1) keep the first, then each one at least
\* absoluteMinDist after the last kept
Thin(candidates, limit) ==
    IF Len(candidates) > 1
    THEN ThinScan(candidates, 2, <<candidates[1]>>, limit)
    ELSE candidates

tolerancePct == 8

\* variant that compares d with the first member instead of the running mean
NearClusterFirst(members, d, limit) ==
    100 * Abs(members[1] - d) < tolerancePct * limit

\* |val - d| < tolerance with val = mean(members), tolerance = limit * 0.08
NearCluster(members, d, limit) ==
    100 * Abs(SumSeq(members) - d * Len(members)) < tolerancePct * limit * Len(members)

\* index of the first cluster within tolerance of d, 0 if none
FirstNear(clusters, d, limit) ==
    LET hits == {k \in 1..Len(clusters) : NearCluster(clusters[k], d, limit)}
    IN  IF hits = {} THEN 0 ELSE CHOOSE k \in hits : \A m \in hits : k <= m

\* the clustering loop; a cluster is its members (count = length, val = mean)
RECURSIVE ClusterScan(_, _, _)
ClusterScan(distances, clusters, limit) ==
    IF distances = <<>> THEN clusters
    ELSE LET d == Head(distances)
             k == FirstNear(clusters, d, limit)
         IN  IF ~AtLeastMinDist(d, limit)
             THEN ClusterScan(Tail(distances), clusters, limit)
             ELSE IF k = 0
                  THEN ClusterScan(Tail(distances), Append(clusters, <<d>>), limit)
                  ELSE ClusterScan(Tail(distances),
                                   [clusters EXCEPT ![k] = Append(@, d)], limit)

\* distances: the first position, then the consecutive differences
Distances(candidates) ==
    [k \in 1..Len(candidates) |->
        IF k = 1 THEN candidates[1].pos ELSE candidates[k].pos - candidates[k - 1].pos]

\* clusters.sort((a, b) => b.count - a.count)[0]: stable, so the first
\* cluster of maximal count
TopCluster(clusters) ==
    clusters[CHOOSE k \in 1..Len(clusters) :
                /\ \A m \in 1..Len(clusters) : Len(clusters[m]) <= Len(clusters[k])
                /\ \A m \in 1..(k - 1) : Len(clusters[m]) < Len(clusters[k])]

\* |pos - round(pos / baseUnit) * baseUnit| < tolerance, baseUnit = sum/len
OnGrid(pos, members, limit) ==
    LET sum == SumSeq(members)
        len == Len(members)
        multiple == (2 * pos * len + sum) \div (2 * sum)
    IN  100 * Abs(pos * len - multiple * sum) < tolerancePct * limit * len

minClusterCount == 2

\* variant without the fallback to the unfiltered list
GridFilterNoFallback(candidates, limit) ==
    IF Len(candidates) > 2
    THEN LET clusters == ClusterScan(Distances(candidates), <<>>, limit)
         IN  IF Len(clusters) > 0 /\ Len(TopCluster(clusters)) >= minClusterCount
             THEN SelectSeq(candidates,
                            LAMBDA c : OnGrid(c.pos, TopCluster(clusters), limit))
             ELSE candidates
    ELSE candidates

GridFilter(candidates, limit) ==
    IF Len(candidates) > 2
    THEN LET clusters == ClusterScan(Distances(candidates), <<>>, limit)
         IN  IF Len(clusters) > 0 /\ Len(TopCluster(clusters)) >= minClusterCount
             THEN LET validCandidates ==
                          SelectSeq(candidates,
                                    LAMBDA c : OnGrid(c.pos, TopCluster(clusters), limit))
                  IN  IF Len(validCandidates) > 0 THEN validCandidates ELSE candidates
             ELSE candidates
    ELSE candidates

\* numeric ascending sort of the returned positions
RECURSIVE InsertNum(_, _)
InsertNum(sorted, x) ==
    IF sorted = <<>> THEN <<x>>
    ELSE IF x < Head(sorted) THEN <<x>> \o sorted
         ELSE <<Head(sorted)>> \o InsertNum(Tail(sorted), x)

RECURSIVE SortNum(_)
SortNum(s) ==
    IF s = <<>> THEN <<>> ELSE InsertNum(SortNum(SubSeq(s, 1, Len(s) - 1)), s[Len(s)])

\* the candidate list after sorting and the margin filter
MarginFiltered(img, isHorizontal) ==
    FilterBorders(
        SortByPos(Combine(MergedSolidLines(img, isHorizontal),
                          BgGaps(img, isHorizontal),
                          Gaps(img, isHorizontal))),
        Limit(img, isHorizontal))

Thinned(img, isHorizontal) ==
    Thin(MarginFiltered(img, isHorizontal), Limit(img, isHorizontal))

(***************************************************************************)
(* Method 2: gradient detection (edges)                                    *)
(*                                                                         *)
(* scores[i] = diffSum / (crossLimit / step) and smoothedScores[i] =       *)
(* sum / (2 * smoothWindow + 1): every score of an axis is divided by the  *)
(* same positive number, so the scores are kept here as the integer        *)
(* numerators (diffSum, and the window sum of diffSums).  With n, T and Q  *)
(* the number, the sum and the sum of squares of the non-zero smoothed     *)
(* scores,  s > mean + 3.5 * stdDev  is  n*s - T > 3.5 * sqrt(n*Q - T*T).  *)
(* The rounding of the Float32Array entries is not modelled; it keeps the  *)
(* order of the scores.                                                    *)
(***************************************************************************)
scoreStep == 2

smoothWindow == 2

thresholdHalfSigmas == 7

localCheck == 10

minDistanceFloor == 50

minDistanceDivisor == 15

\* diffSum of line i >= 1: |dr| + |dg| + |db| against line i-1, summed over
\* every 2nd cross-pixel
DiffSum(img, isHorizontal, i) ==
    LET js == SampleSeq(CrossLimit(img, isHorizontal), scoreStep)
    IN  SumSeq([k \in 1..Len(js) |->
            Abs(Channel(img, isHorizontal, i, js[k], 0)
                    - Channel(img, isHorizontal, i - 1, js[k], 0))
                + Abs(Channel(img, isHorizontal, i, js[k], 1)
                          - Channel(img, isHorizontal, i - 1, js[k], 1))
                + Abs(Channel(img, isHorizontal, i, js[k], 2)
                          - Channel(img, isHorizontal, i - 1, js[k], 2))])

\* scores: the loop starts at i = 1, scores[0] keeps the initial 0.  (The
\* trailing @@ <<>> adds nothing to the array; it has TLC fill the array
\* once instead of evaluating an entry at every read.)
Scores(img, isHorizontal) ==
    [i \in 0..(Limit(img, isHorizontal) - 1) |->
        IF i >= 1 THEN DiffSum(img, isHorizontal, i) ELSE 0] @@ <<>>

\* smoothedScores: filled for smoothWindow <= i < limit - smoothWindow, 0
\* elsewhere
SmoothedScores(scores, limit) ==
    [i \in 0..(limit - 1) |->
        IF i >= smoothWindow /\ i < limit - smoothWindow
        THEN SumSeq([k \in 1..(2 * smoothWindow + 1) |-> scores[i - smoothWindow + k - 1]])
        ELSE 0] @@ <<>>

\* n, T, Q of nonZeroScores = smoothedScores.filter(s => s > 0); the zero
\* scores add nothing to the sums
ScoreStats(smoothed, limit) ==
    [n |-> Cardinality({i \in 0..(limit - 1) : smoothed[i] > 0}),
     sum |-> SumRange(smoothed, 0, limit - 1),
     sumSq |-> SumRange([i \in 0..(limit - 1) |-> smoothed[i] * smoothed[i]], 0, limit - 1)]

\* smoothedScores[i] > threshold, threshold = mean + 3.5 * stdDev
AboveThreshold(s, stats) ==
    LET d == stats.n * s - stats.sum
    IN  /\ d > 0
        /\ 4 * d * d > thresholdHalfSigmas * thresholdHalfSigmas
                          * (stats.n * stats.sumSq - stats.sum * stats.sum)

\* variant of isMax that also looks at line i + localCheck
IsLocalMaxSymmetric(smoothed, limit, i) ==
    \A k \in Max2(0, i - localCheck)..Min2(limit - 1, i + localCheck) :
        ~(smoothed[k] > smoothed[i])

\* isMax: no k in [max(0, i-10), min(limit, i+10)) has a larger smoothed score
IsLocalMax(smoothed, limit, i) ==
    \A k \in Max2(0, i - localCheck)..(Min2(limit, i + localCheck) - 1) :
        ~(smoothed[k] > smoothed[i])

\* edges after the peak loop over 1 <= i < limit - 1
Peaks(smoothed, limit) ==
    LET stats == ScoreStats(smoothed, limit)
    IN  IF stats.n > 0
        THEN SelectSeq([k \in 1..(limit - 2) |-> k],
                       LAMBDA i : AboveThreshold(smoothed[i], stats)
                                      /\ IsLocalMax(smoothed, limit, i))
        ELSE <<>>

\* edges.map(idx => ({ idx, score: smoothedScores[idx] }))
EdgeCandidates(edges, smoothed) ==
    [k \in 1..Len(edges) |-> [idx |-> edges[k], score |-> smoothed[edges[k]]]]

\* candidates.sort((a, b) => b.score - a.score): stable, descending score
RECURSIVE InsertByScore(_, _)
InsertByScore(sorted, c) ==
    IF sorted = <<>> THEN <<c>>
    ELSE IF Head(sorted).score < c.score THEN <<c>> \o sorted
         ELSE <<Head(sorted)>> \o InsertByScore(Tail(sorted), c)

\* variant of the sort that leaves the peaks in position order
SortByScoreOff(candidates) == candidates

RECURSIVE SortByScore(_)
SortByScore(candidates) ==
    IF candidates = <<>> THEN <<>>
    ELSE InsertByScore(SortByScore(SubSeq(candidates, 1, Len(candidates) - 1)),
                       candidates[Len(candidates)])

\* Math.abs(c.idx - best.idx) >= minDistance, minDistance = Math.max(50, limit / 15)
AtLeastMinDistance(a, b, limit) ==
    /\ Abs(a - b) >= minDistanceFloor
    /\ minDistanceDivisor * Abs(a - b) >= limit

\* the while loop: take candidates[0], drop every candidate closer than
\* minDistance to it, repeat; the result is selected, in pick order
RECURSIVE Suppress(_, _)
Suppress(candidates, limit) ==
    IF candidates = <<>> THEN <<>>
    ELSE LET best == candidates[1]
         IN  <<best.idx>> \o
                 Suppress(SelectSeq(candidates,
                                    LAMBDA c : AtLeastMinDistance(c.idx, best.idx, limit)),
                          limit)

\* filteredEdges: selected.sort((a, b) => a - b)
FilterEdges(edges, smoothed, limit) ==
    SortNum(Suppress(SortByScore(EdgeCandidates(edges, smoothed)), limit))

Smoothed(img, isHorizontal) ==
    SmoothedScores(Scores(img, isHorizontal), Limit(img, isHorizontal))

\* edges at the end of Method 2
Edges(img, isHorizontal) ==
    LET limit == Limit(img, isHorizontal)
        smoothed == Smoothed(img, isHorizontal)
    IN  FilterEdges(Peaks(smoothed, limit), smoothed, limit)

\* variant of detectAxis that falls back to the centre line when nothing is
\* left
detectAxisOrCentre(img, isHorizontal) ==
    LET candidates == GridFilter(Thinned(img, isHorizontal), Limit(img, isHorizontal))
        positions == SortNum([k \in 1..Len(candidates) |-> candidates[k].pos])
    IN  IF positions = <<>> THEN <<Limit(img, isHorizontal) \div 2>> ELSE positions

\* variant of detectAxis that also returns the gradient peaks
detectAxisWithEdges(img, isHorizontal) ==
    LET candidates == GridFilter(Thinned(img, isHorizontal), Limit(img, isHorizontal))
        edges == Edges(img, isHorizontal)
    IN  SortNum([k \in 1..Len(candidates) |-> candidates[k].pos]
                    \o SelectSeq(edges, LAMBDA e :
                           \A k \in 1..Len(candidates) : candidates[k].pos # e))

\* detectAxis.  The gradient peaks of Method 2 (Edges above) are computed by
\* the source but never read by the combine step, so they are not part of
\* the returned value.
detectAxis(img, isHorizontal) ==
    LET candidates == GridFilter(Thinned(img, isHorizontal), Limit(img, isHorizontal))
    IN  SortNum([k \in 1..Len(candidates) |-> candidates[k].pos])

(***************************************************************************)
(* detectSeamsLocal                                                        *)
(***************************************************************************)
NoImage == [width |-> 0, height |-> 0, data |-> <<>>]

\* img.onload: both axes are detected on the same ImageData and the promise
\* resolves with { rowSplits, colSplits }
DetectSeams ==
    /\ imageData # NoImage
    /\ ~seamsDone
    /\ rowSplits' = detectAxis(imageData, TRUE)
    /\ colSplits' = detectAxis(imageData, FALSE)
    /\ seamsDone' = TRUE
    /\ UNCHANGED <<imageData, fillVars, maskVars, uiVars>>

(***************************************************************************)
(* Input images.  An image is given by a descriptor: a uniform background, *)
(* optional textured cell content, and vertical / horizontal bars          *)
(* (separator strokes or gutters) laid out with a period.                  *)
(***************************************************************************)
White == <<255, 255, 255>>

Black == <<0, 0, 0>>

OffWhite == <<240, 240, 240>>

Grey == <<128, 128, 128>>

Bars(starts, bw) == [starts |-> starts, bw |-> bw]

NoBars == Bars({}, 0)

Periodic(first, period, count) == {first + k * period : k \in 0..(count - 1)}

InBars(x, b) == \E s \in b.starts : s <= x /\ x < s + b.bw

\* 0/1 pattern that alternates every 4 pixels along both axes
Checker(x, y) == ((x \div 4) + (y \div 4)) % 2

\* cell content: strong light/dark texture
Texture(x, y) == IF Checker(x, y) = 0 THEN <<40, 60, 80>> ELSE <<220, 200, 180>>

\* a bar pixel: the plain colour, or a mild two-tone stroke ("noisy")
BarColor(d, x, y) ==
    IF d.noisy
    THEN [c \in 1..3 |-> IF d.fg[c] > 127 THEN d.fg[c] - 14 * Checker(x, y)
                                           ELSE d.fg[c] + 14 * Checker(x, y)]
    ELSE d.fg

ColorAt(d, x, y) ==
    IF InBars(x, d.vb) \/ InBars(y, d.hb) THEN BarColor(d, x, y)
    ELSE IF d.tex THEN Texture(x, y)
    ELSE d.bg

MkImage(d) ==
    [width  |-> d.w,
     height |-> d.h,
     data   |-> [i \in 0..(4 * d.w * d.h - 1) |->
                   IF i % 4 = 3 THEN 255
                   ELSE ColorAt(d, (i \div 4) % d.w, (i \div 4) \div d.w)[(i % 4) + 1]]]

Desc(w, h, bg, fg, noisy, tex, vb, hb) ==
    [w |-> w, h |-> h, bg |-> bg, fg |-> fg, noisy |-> noisy, tex |-> tex,
     vb |-> vb, hb |-> hb]

Transpose(d) == [d EXCEPT !.w = d.h, !.h = d.w, !.vb = d.hb, !.hb = d.vb]

MaxUniformSide == 9

UniformDescs ==
    {Desc(w, h, c, c, FALSE, FALSE, NoBars, NoBars) :
        w \in 1..MaxUniformSide, h \in 1..MaxUniformSide, c \in {White, Grey}}

MaxBarHeight == 2

MaxBarWidth == 5

\* three full-height bars starting at first, first+period, first+2*period,
\* each bw wide, with the same background margin on both sides
ThreeBars(first, period, bw, h, bg, fg) ==
    Desc(2 * first + 2 * period + bw, h, bg, fg, FALSE, FALSE,
         Bars(Periodic(first, period, 3), bw), NoBars)

ThreeBarDescs ==
    {ThreeBars(first, period, bw, h, White, fg) :
        first \in {2, 8, 20}, period \in {6, 10, 20, 24}, bw \in 4..MaxBarWidth,
        h \in 1..MaxBarHeight, fg \in {Black, OffWhite, Grey}}

MaxGutter == 3

GridSides == {24, 30}

\* textured cells separated by gutters of width 1..MaxGutter
GridDescs ==
    {Desc(w, h, White, fg, noisy, TRUE,
          Bars(Periodic(first, period, 2), bw), Bars(Periodic(first, period, hcount), bw)) :
        w \in GridSides, h \in GridSides, fg \in {White, Black, Grey},
        noisy \in BOOLEAN, first \in {0, 7}, period \in {8, 11},
        bw \in 1..MaxGutter, hcount \in {0, 2}}

MaxExtra == 1

\* textured strip with three periodic separators and one extra separator
\* placed off the period
IrregularDescs ==
    {Desc(4 * period, h, White, fg, FALSE, TRUE,
          Bars(Periodic(period - 1, period, 3)
                   \cup {2 * period - 1 + (period \div 2) + extra}, bw),
          NoBars) :
        period \in {10, 12}, extra \in 0..MaxExtra, fg \in {Black, White},
        bw \in {1, 2}, h \in {4, 5}}

\* plain strips with unevenly spaced separators, the first one close to the
\* border
UnevenDescs ==
    {Desc(56, h, White, fg, FALSE, FALSE, Bars({4, 14, 26, 34, 41}, 2), NoBars) :
        h \in 1..MaxBarHeight, fg \in {Black, Grey}}
        \cup {Desc(88, h, White, fg, FALSE, FALSE, Bars({7, 14, 28, 42}, 1), NoBars) :
                  h \in 1..MaxBarHeight, fg \in {Black, Grey}}

\* textured strips with plain gutters of 2, 3 and 3 lines, the last one
\* reaching the border
GutterDescs ==
    {Desc(24, h, White, fg, FALSE, TRUE, Bars({2, 8, 9, 21, 22}, 2), NoBars) :
        h \in {8, 12}, fg \in {White, Grey}}

NearWhite == <<251, 251, 251>>

\* small white images with one line of a slightly different white
TintedDescs ==
    {Desc(w, h, White, NearWhite, FALSE, FALSE, Bars({s}, 1), NoBars) :
        w \in 3..5, h \in 1..MaxBarHeight, s \in {0, 2}}

\* the images without two-dimensional texture grids
StripDescs ==
    UniformDescs \cup ThreeBarDescs \cup {Transpose(d) : d \in ThreeBarDescs}
        \cup IrregularDescs \cup {Transpose(d) : d \in IrregularDescs}
        \cup UnevenDescs \cup {Transpose(d) : d \in UnevenDescs}
        \cup GutterDescs \cup {Transpose(d) : d \in GutterDescs}
        \cup TintedDescs \cup {Transpose(d) : d \in TintedDescs}

\* plain strips of 32 lines with 8 or 10 one-line separators every 3 or 4
\* lines
DenseDescs ==
    {Desc(32, h, White, fg, FALSE, FALSE,
          Bars(Periodic(first, period, count), 1), NoBars) :
        h \in 1..MaxBarHeight, fg \in {Black, Grey}, first \in {1, 2},
        period \in {3, 4}, count \in {8, 10}}

Descriptors ==
    StripDescs \cup GridDescs \cup DenseDescs \cup {Transpose(d) : d \in DenseDescs}

\* the images on which the stages of detectAxis are examined one by one:
\* the strips and the 24x24 grids with gutters on both axes
StageDescriptors ==
    StripDescs \cup {d \in GridDescs : d.w = 24 /\ d.h = 24 /\ d.hb # NoBars
                                       /\ 7 \in d.vb.starts}

(***************************************************************************)
(* Input images for the gradient detector: a dark strip whose red channel  *)
(* alternates by 1 from line to line (so that every smoothed score is      *)
(* non-zero) and rises by e at line E for each step <<E, e>>.              *)
(***************************************************************************)
EdgeLevel(d, p) ==
    (p % 2)
        + SumSeq([k \in 1..Len(d.steps) |-> IF d.steps[k][1] <= p THEN d.steps[k][2] ELSE 0])

MkEdgeImage(d) ==
    LET width == IF d.horizontal THEN d.cross ELSE d.limit
        height == IF d.horizontal THEN d.limit ELSE d.cross
    IN  [width  |-> width,
         height |-> height,
         data   |-> [i \in 0..(4 * width * height - 1) |->
                       IF i % 4 = 3 THEN 255
                       ELSE IF i % 4 # 0 THEN 0
                       ELSE EdgeLevel(d, IF d.horizontal THEN (i \div 4) \div width
                                         ELSE (i \div 4) % width)]]

MaxEdgeCross == 2

\* two steps, the second one 45 to 60 lines after the first, of equal or
\* different heights, on axes of 200 and 780 lines
EdgeDescs ==
    {[limit |-> limit, cross |-> cross, horizontal |-> horizontal,
      steps |-> <<(<<first, e[1]>>), (<<first + gap, e[2]>>)>>] :
        limit \in {200, 780}, cross \in 1..MaxEdgeCross, horizontal \in BOOLEAN,
        first \in {40, 60}, gap \in {45, 50, 51, 52, 60},
        e \in {<<12, 13>>, <<13, 12>>, <<13, 13>>}}

\* two steps 13 or 14 lines apart: the score plateau of the second step
\* begins 9 or 10 lines after the end of the plateau of the first
NearEdgeDescs ==
    {[limit |-> 200, cross |-> cross, horizontal |-> horizontal,
      steps |-> <<(<<first, e[1]>>), (<<first + gap, e[2]>>)>>] :
        cross \in 1..MaxEdgeCross, horizontal \in BOOLEAN,
        first \in {40, 60}, gap \in {13, 14},
        e \in {<<12, 13>>, <<13, 12>>, <<13, 13>>}}

ShortEdgeDescs == {d \in EdgeDescs \cup NearEdgeDescs : d.limit = 200}

(***************************************************************************)
(* floodFill (magic wand)                                                  *)
(*                                                                         *)
(* data is a Uint8ClampedArray: reading an index outside 0..length-1       *)
(* yields undefined, and every comparison on undefined/NaN is false        *)
(* (undefined === 0 is false, |undefined - r| <= tolerance is false).  idx *)
(* is a multiple of 4 and so is the length, hence idx..idx+3 are inside    *)
(* the array together or not at all.                                       *)
(***************************************************************************)
getPixelIndex(img, x, y) == (y * img.width + x) * 4

InArray(data, idx) == idx \in DOMAIN data

\* if (startA === 0) return
StartIsTransparent(img, startX, startY) ==
    LET startIdx == getPixelIndex(img, startX, startY)
    IN  InArray(img.data, startIdx) /\ img.data[startIdx + 3] = 0

\* variant of colorMatch without the test of the pixel's own alpha
colorMatchAnyAlpha(data, idx, start, tolerance) ==
    /\ InArray(data, idx)
    /\ start.defined
    /\ Abs(data[idx] - start.r) <= tolerance
    /\ Abs(data[idx + 1] - start.g) <= tolerance
    /\ Abs(data[idx + 2] - start.b) <= tolerance

\* colorMatch(idx) against the start colour captured before the loop
colorMatch(data, idx, start, tolerance) ==
    /\ InArray(data, idx)
    /\ data[idx + 3] # 0
    /\ start.defined
    /\ Abs(data[idx] - start.r) <= tolerance
    /\ Abs(data[idx + 1] - start.g) <= tolerance
    /\ Abs(data[idx + 2] - start.b) <= tolerance

\* variant of the neighbour pushes without the push of [x, y+1]
NeighboursNoDown(img, x, y) ==
    (IF x > 0 THEN <<(<<x - 1, y>>)>> ELSE <<>>)
        \o (IF x < img.width - 1 THEN <<(<<x + 1, y>>)>> ELSE <<>>)
        \o (IF y > 0 THEN <<(<<x, y - 1>>)>> ELSE <<>>)

\* variant of the neighbour pushes without the tests against the canvas
\* borders
NeighboursUnbounded(img, x, y) ==
    <<(<<x - 1, y>>), (<<x + 1, y>>), (<<x, y - 1>>), (<<x, y + 1>>)>>

\* if (x > 0) push [x-1,y]; if (x < width-1) push [x+1,y];
\* if (y > 0) push [x,y-1]; if (y < height-1) push [x,y+1]
Neighbours(img, x, y) ==
    (IF x > 0 THEN <<(<<x - 1, y>>)>> ELSE <<>>)
        \o (IF x < img.width - 1 THEN <<(<<x + 1, y>>)>> ELSE <<>>)
        \o (IF y > 0 THEN <<(<<x, y - 1>>)>> ELSE <<>>)
        \o (IF y < img.height - 1 THEN <<(<<x, y + 1>>)>> ELSE <<>>)

\* variant of the loop body that halves the alpha of a matching pixel
\* instead of clearing it
FillStepFade(st, img, start, tolerance) ==
    IF st.stack = <<>> THEN st
    ELSE LET top == st.stack[Len(st.stack)]
             rest == SubSeq(st.stack, 1, Len(st.stack) - 1)
             x == top[1]
             y == top[2]
             idx == getPixelIndex(img, x, y)
         IN  IF top \in st.visited THEN [st EXCEPT !.stack = rest]
             ELSE IF colorMatch(st.data, idx, start, tolerance)
                  THEN [stack |-> rest \o Neighbours(img, x, y),
                        visited |-> st.visited \cup {top},
                        data |-> [st.data EXCEPT ![idx + 3] = @ \div 2]]
                  ELSE [st EXCEPT !.stack = rest, !.visited = @ \cup {top}]

\* variant of the loop body that also writes the red byte of a matching
\* pixel
FillStepTint(st, img, start, tolerance) ==
    IF st.stack = <<>> THEN st
    ELSE LET top == st.stack[Len(st.stack)]
             rest == SubSeq(st.stack, 1, Len(st.stack) - 1)
             x == top[1]
             y == top[2]
             idx == getPixelIndex(img, x, y)
         IN  IF top \in st.visited THEN [st EXCEPT !.stack = rest]
             ELSE IF colorMatch(st.data, idx, start, tolerance)
                  THEN [stack |-> rest \o Neighbours(img, x, y),
                        visited |-> st.visited \cup {top},
                        data |-> [st.data EXCEPT ![idx + 3] = 0, ![idx] = 0]]
                  ELSE [st EXCEPT !.stack = rest, !.visited = @ \cup {top}]

\* one iteration of while (stack.length > 0); the identity once the stack
\* is empty
FillStep(st, img, start, tolerance) ==
    IF st.stack = <<>> THEN st
    ELSE LET top == st.stack[Len(st.stack)]
             rest == SubSeq(st.stack, 1, Len(st.stack) - 1)
             x == top[1]
             y == top[2]
             idx == getPixelIndex(img, x, y)
         IN  IF top \in st.visited THEN [st EXCEPT !.stack = rest]
             ELSE IF colorMatch(st.data, idx, start, tolerance)
                  THEN [stack |-> rest \o Neighbours(img, x, y),
                        visited |-> st.visited \cup {top},
                        data |-> [st.data EXCEPT ![idx + 3] = 0]]
                  ELSE [st EXCEPT !.stack = rest, !.visited = @ \cup {top}]

\* n iterations of the loop
RECURSIVE FillIterate(_, _, _, _, _)
FillIterate(st, img, start, tolerance, n) ==
    IF n = 0 \/ st.stack = <<>> THEN st
    ELSE IF n = 1 THEN FillStep(st, img, start, tolerance)
    ELSE LET left == FillIterate(st, img, start, tolerance, n \div 2)
         IN  IF Len(left.stack) >= 0
             THEN FillIterate(left, img, start, tolerance, n - (n \div 2))
             ELSE left

\* Every pop either marks a new coordinate visited or finds it visited; a
\* coordinate is pushed once at the start or by one of its at most 4
\* matching neighbours, so the loop ends within this many iterations.
MaxPops(img) == 4 * img.width * img.height + 4

\* the loop state when the while loop has run to completion
FillRun(img, startX, startY, tolerance) ==
    LET startIdx == getPixelIndex(img, startX, startY)
        start == IF InArray(img.data, startIdx)
                 THEN [defined |-> TRUE, r |-> img.data[startIdx],
                       g |-> img.data[startIdx + 1], b |-> img.data[startIdx + 2]]
                 ELSE [defined |-> FALSE, r |-> 0, g |-> 0, b |-> 0]
    IN  FillIterate([stack |-> <<(<<startX, startY>>)>>, visited |-> {},
                     data |-> img.data],
                    img, start, tolerance, MaxPops(img))

\* the data array floodFill puts back on the canvas
floodFill(img, startX, startY, tolerance) ==
    IF StartIsTransparent(img, startX, startY) THEN img.data
    ELSE FillRun(img, startX, startY, tolerance).data

\* how the call ends: floodFill has no throw statement and no operation in
\* it throws on an out-of-range index, so it always returns
floodFillOutcome(img, startX, startY, tolerance) == "returned"

NoFill == [called |-> FALSE]

InBounds(img, x, y) == x \in 0..(img.width - 1) /\ y \in 0..(img.height - 1)

\* seeds handed to floodFill: in bounds, and up to one pixel outside
Seeds(img) == (-1..img.width) \X (-1..img.height)

Tolerances == {0, 3}

\* handleMagicWand: floodFill(ctx, x, y, tolerance) on the canvas
FloodFill(x, y, tolerance) ==
    /\ pixels # NoImage
    /\ pixels' = [pixels EXCEPT !.data = floodFill(pixels, x, y, tolerance)]
    /\ lastFill' = [called |-> TRUE, x |-> x, y |-> y, tolerance |-> tolerance,
                    before |-> pixels.data,
                    outcome |-> floodFillOutcome(pixels, x, y, tolerance),
                    repeated |-> /\ lastFill.called
                                 /\ lastFill.x = x
                                 /\ lastFill.y = y]
    /\ UNCHANGED <<fillCall, seamVars, maskVars, uiVars>>

(***************************************************************************)
(* floodFill step by step: fillCall holds the position of the call in      *)
(* progress (idle, loop, done) and its locals stack, visited and data,     *)
(* with the coordinates handed to colorMatch (tests) and the number of     *)
(* pops so far as history.                                                 *)
(***************************************************************************)
NoCall ==
    [pc |-> "idle", x |-> 0, y |-> 0, tolerance |-> 0, stack |-> <<>>, visited |-> {},
     data |-> <<>>, start |-> [defined |-> FALSE, r |-> 0, g |-> 0, b |-> 0],
     tests |-> <<>>, pops |-> 0]

\* startR, startG, startB read at the seed's index
StartColour(img, startX, startY) ==
    LET startIdx == getPixelIndex(img, startX, startY)
    IN  IF InArray(img.data, startIdx)
        THEN [defined |-> TRUE, r |-> img.data[startIdx],
              g |-> img.data[startIdx + 1], b |-> img.data[startIdx + 2]]
        ELSE [defined |-> FALSE, r |-> 0, g |-> 0, b |-> 0]

\* the call up to the while loop: getImageData, stack = [[startX, startY]],
\* visited = new Set(), the start colour, and the return on a transparent
\* start pixel
FillBegin(startX, startY, tolerance) ==
    /\ pixels # NoImage
    /\ fillCall.pc \in {"idle", "done"}
    /\ fillCall' =
           [pc |-> IF StartIsTransparent(pixels, startX, startY) THEN "done" ELSE "loop",
            x |-> startX, y |-> startY, tolerance |-> tolerance,
            stack |-> <<(<<startX, startY>>)>>, visited |-> {},
            data |-> pixels.data,
            start |-> StartColour(pixels, startX, startY),
            tests |-> <<>>, pops |-> 0]
    /\ UNCHANGED <<pixels, lastFill, seamVars, maskVars, uiVars>>

\* one iteration of the while loop
FillPop ==
    /\ fillCall.pc = "loop"
    /\ fillCall.stack # <<>>
    /\ LET top == fillCall.stack[Len(fillCall.stack)]
           st == FillStep([stack |-> fillCall.stack, visited |-> fillCall.visited,
                           data |-> fillCall.data],
                          pixels, fillCall.start, fillCall.tolerance)
       IN  fillCall' =
               [fillCall EXCEPT !.stack = st.stack,
                                !.visited = st.visited,
                                !.data = st.data,
                                !.tests = IF top \in fillCall.visited THEN @
                                          ELSE Append(@, top),
                                !.pops = @ + 1]
    /\ UNCHANGED <<pixels, lastFill, seamVars, maskVars, uiVars>>

\* the loop condition fails: ctx.putImageData(imageData, 0, 0) and return
FillEnd ==
    /\ fillCall.pc = "loop"
    /\ fillCall.stack = <<>>
    /\ pixels' = [pixels EXCEPT !.data = fillCall.data]
    /\ fillCall' = [fillCall EXCEPT !.pc = "done"]
    /\ UNCHANGED <<lastFill, seamVars, maskVars, uiVars>>

(***************************************************************************)
(* Input buffers for floodFill: every buffer of at most MaxFillPixels      *)
(* pixels over three pixel values, a set of 2x2 / 3x2 / 3x3 patterns over  *)
(* four pixel values, and buffers of one colour (among them 10x10).        *)
(***************************************************************************)
PxA == <<10, 10, 10, 255>>

PxB == <<13, 10, 10, 255>>

PxC == <<10, 10, 14, 200>>

PxT == <<10, 10, 10, 0>>

PixelKinds == {PxA, PxB, PxT}

MaxFillPixels == 3

FillShapes ==
    {wh \in (1..MaxFillPixels) \X (1..MaxFillPixels) : wh[1] * wh[2] <= MaxFillPixels}

\* the RGBA array of a buffer given pixel by pixel (px is 0-based)
Rgba(w, h, px) == [i \in 0..(4 * w * h - 1) |-> px[i \div 4][(i % 4) + 1]]

Buffer(w, h, px) == [width |-> w, height |-> h, data |-> Rgba(w, h, px)]

SmallBuffers ==
    UNION {{Buffer(wh[1], wh[2], px) : px \in [0..(wh[1] * wh[2] - 1) -> PixelKinds]} :
              wh \in FillShapes}

\* a buffer given as the row-major sequence of its pixels
Pattern(w, h, seq) == Buffer(w, h, [p \in 0..(w * h - 1) |-> seq[p + 1]])

PatternBuffers ==
    {Pattern(2, 2, <<PxA, PxB, PxB, PxA>>),
     Pattern(2, 2, <<PxA, PxC, PxT, PxB>>),
     Pattern(3, 2, <<PxA, PxT, PxA, PxA, PxB, PxA>>),
     Pattern(3, 3, <<PxA, PxA, PxA, PxA, PxC, PxA, PxA, PxA, PxA>>),
     Pattern(3, 3, <<PxA, PxT, PxB, PxA, PxT, PxA, PxC, PxT, PxA>>)}

FillBuffers == SmallBuffers \cup PatternBuffers

UniformBuffer(w, h, kind) == Buffer(w, h, [p \in 0..(w * h - 1) |-> kind])

MaxUniformFill == 3

\* buffers of one colour with non-zero alpha
UniformBuffers ==
    {UniformBuffer(w, h, kind) :
        w \in 1..MaxUniformFill, h \in 1..MaxUniformFill, kind \in {PxA, PxC}}
        \cup {UniformBuffer(10, 10, PxA)}

(***************************************************************************)
(* largestComponent (filterLargestComponent of services/imageProcessing).  *)
(* ImageEditor.tsx imports and calls it; its body is specified by the     *)
(* design's ConnectedComponentFilter, modelled here: raster-order          *)
(* labelling of the 4-connected components of the positions with logit >   *)
(* 0, the largest kept (the first found on ties), every other position     *)
(* forced to 0, and ShapeMismatch when the length is not width*height.     *)
(***************************************************************************)
maskSentinel == 0

\* the 4 grid neighbours of position i, bounds-checked
MaskNeighbours(i, width, height) ==
    LET x == i % width
        y == i \div width
    IN  (IF x > 0 THEN {i - 1} ELSE {}) \cup (IF x < width - 1 THEN {i + 1} ELSE {})
            \cup (IF y > 0 THEN {i - width} ELSE {})
            \cup (IF y < height - 1 THEN {i + width} ELSE {})

Foreground(values) == {i \in DOMAIN values : values[i] > 0}

\* region growing from the positions in region over the foreground
RECURSIVE GrowRegion(_, _, _, _)
GrowRegion(region, values, width, height) ==
    LET next == region \cup {j \in Foreground(values) :
                                \E i \in region : j \in MaskNeighbours(i, width, height)}
    IN  IF next = region THEN region ELSE GrowRegion(next, values, width, height)

\* scan step at position i: an unlabelled foreground position starts a new
\* component, labelled with the next id
LabelStep(st, values, width, height, i) ==
    IF values[i] > 0 /\ st.labels[i] = -1
    THEN LET comp == GrowRegion({i}, values, width, height)
             id == Len(st.sizes)
         IN  [labels |-> [j \in DOMAIN values |-> IF j \in comp THEN id ELSE st.labels[j]],
              sizes |-> Append(st.sizes, Cardinality(comp))]
    ELSE st

RECURSIVE LabelFold(_, _, _, _, _, _)
LabelFold(st, values, width, height, lo, hi) ==
    IF lo > hi THEN st
    ELSE IF lo = hi THEN LabelStep(st, values, width, height, lo)
    ELSE LET mid == (lo + hi) \div 2
             left == LabelFold(st, values, width, height, lo, mid)
         IN  IF Len(left.sizes) >= 0
             THEN LabelFold(left, values, width, height, mid + 1, hi)
             ELSE left

\* ComponentLabelMap and the component sizes (sizes[id + 1] is the size of id)
LabelMap(values, width, height) ==
    LabelFold([labels |-> [j \in DOMAIN values |-> -1], sizes |-> <<>>],
              values, width, height, 0, width * height - 1)

\* variant that takes the last found among equally large components
LargestIdLast(sizes) ==
    IF sizes = <<>> THEN -1
    ELSE (CHOOSE k \in 1..Len(sizes) :
             /\ \A m \in 1..Len(sizes) : sizes[m] <= sizes[k]
             /\ \A m \in (k + 1)..Len(sizes) : sizes[m] < sizes[k]) - 1

\* id of the largest component, the first found among equals; -1 if none
LargestId(sizes) ==
    IF sizes = <<>> THEN -1
    ELSE (CHOOSE k \in 1..Len(sizes) :
             /\ \A m \in 1..Len(sizes) : sizes[m] <= sizes[k]
             /\ \A m \in 1..(k - 1) : sizes[m] < sizes[k]) - 1

\* variant without the shape test: a mask of another length passes through
largestComponentUnchecked(m) ==
    IF Len(m.values) # m.width * m.height
    THEN [status |-> "ok", values |-> m.values]
    ELSE LET values == [i \in 0..(m.width * m.height - 1) |-> m.values[i + 1]]
             lm == LabelMap(values, m.width, m.height)
             keep == LargestId(lm.sizes)
         IN  [status |-> "ok",
              values |-> [k \in 1..Len(m.values) |->
                            IF keep >= 0 /\ lm.labels[k - 1] = keep
                            THEN m.values[k] ELSE maskSentinel]]

largestComponent(m) ==
    IF Len(m.values) # m.width * m.height
    THEN [status |-> "ShapeMismatch", values |-> <<>>]
    ELSE LET values == [i \in 0..(m.width * m.height - 1) |-> m.values[i + 1]]
             lm == LabelMap(values, m.width, m.height)
             keep == LargestId(lm.sizes)
         IN  [status |-> "ok",
              values |-> [k \in 1..Len(m.values) |->
                            IF keep >= 0 /\ lm.labels[k - 1] = keep
                            THEN m.values[k] ELSE maskSentinel]]

NoMask == [width |-> 0, height |-> 0, values |-> <<>>]

NoResult == [status |-> "none", values |-> <<>>]

\* applySamMask: filterLargestComponent(maskData, samMask.width, samMask.height)
LargestComponent ==
    /\ mask # NoMask
    /\ maskResult = NoResult
    /\ maskResult' = largestComponent(mask)
    /\ UNCHANGED <<mask, seamVars, fillVars, uiVars>>

(***************************************************************************)
(* Input masks: every value sequence of at most MaxMaskPixels logits with  *)
(* every shape of at most MaxMaskPixels positions (matching or not), and   *)
(* the design's example of a 5x5 block with a disjoint single pixel.       *)
(***************************************************************************)
Logits == {-2, 0, 1, 3}

MaxMaskPixels == 4

MaskShapes ==
    {wh \in (1..MaxMaskPixels) \X (1..MaxMaskPixels) : wh[1] * wh[2] <= MaxMaskPixels}

SmallMasks ==
    UNION {{[width |-> wh[1], height |-> wh[2], values |-> v] :
               v \in UNION {[1..n -> Logits] : n \in 0..MaxMaskPixels}} :
              wh \in MaskShapes}

\* 7x7: positive block in rows/columns 0..4 with mixed values, background
\* -2, and the single pixel (6,6) with value lone
BlockMask(lone) ==
    [width |-> 7, height |-> 7,
     values |-> [k \in 1..49 |->
                   LET x == (k - 1) % 7
                       y == (k - 1) \div 7
                   IN  IF x <= 4 /\ y <= 4 THEN 1 + ((x + y) % 3)
                       ELSE IF x = 6 /\ y = 6 THEN lone
                       ELSE -2]]

\* 5x2: two components of two positions each, then a single position
TieMask ==
    [width |-> 5, height |-> 2, values |-> <<1, 3, -2, 0, 1, 0, -2, 3, 3, 0>>]

Masks == SmallMasks \cup {BlockMask(lone) : lone \in {0, 5}} \cup {TieMask}

(***************************************************************************)
(* ImageEditor: the history stack, the edit mode, the segmentation points  *)
(* and mask, and the handlers that change them.  An image source is its    *)
(* size and the alpha byte of each pixel, row-major.  A handler closes     *)
(* over the history and currentStep of the render that created it; the     *)
(* asynchronous handleAutoRemoveBg keeps them across its await (bgJobs).   *)
(***************************************************************************)
NoMode == "null"

NoSamMask == [data |-> <<>>, width |-> 0, height |-> 0, present |-> FALSE]

NoOp == [op |-> "none"]

MaxHistory == 3

MaxBgJobs == 1

MaxSamPoints == 1

Src(w, h, alpha) == [width |-> w, height |-> h, alpha |-> alpha]

Opaque(w, h) == Src(w, h, [k \in 1..(w * h) |-> 255])

EditorSources == {Opaque(2, 1), Opaque(2, 2)}

EditModes == {"BACKGROUND", "SEGMENT"}

\* masks generateMask may return: logits of 2 or 4 positions, declared with
\* a size that fits them or not
EditorMasks ==
    {[data |-> v, width |-> wh[1], height |-> wh[2], present |-> TRUE] :
        v \in {<<-2, 1>>, <<1, -2, 1, 1>>}, wh \in {<<2, 1>>, <<2, 2>>}}

\* the state a handler reads
Snapshot ==
    [history |-> history, currentStep |-> currentStep, mode |-> mode,
     samPoints |-> samPoints, samMask |-> samMask]

\* a handler that pushes nothing is logged by its name only
Note(name) == [op |-> name]

Op(name, src, applied) ==
    [op |-> name, before |-> Snapshot, src |-> src, applied |-> applied]

\* newHistory = history.slice(0, currentStep + 1); newHistory.push(newSrc);
\* setHistory(newHistory); setCurrentStep(newHistory.length - 1)
pushToHistory(h, step, newSrc) ==
    LET newHistory == Append(SubSeq(h, 1, Min2(step + 1, Len(h))), newSrc)
    IN  [history |-> newHistory, currentStep |-> Len(newHistory) - 1]

\* the canvas of rotateImage: the image turned by 90 degrees clockwise
rotateImage(src) ==
    LET w == src.height
        h == src.width
    IN  Src(w, h, [k \in 1..(w * h) |->
                     LET x == (k - 1) % w
                         y == (k - 1) \div w
                     IN  src.alpha[(src.height - 1 - x) * src.width + y + 1]])

\* what removeBackgroundAuto resolves with: the image with only its first
\* pixel kept
removeBackgroundAuto(src) ==
    [src EXCEPT !.alpha = [k \in 1..Len(src.alpha) |-> IF k = 1 THEN src.alpha[k] ELSE 0]]

\* for (i < filteredMaskData.length) if (filteredMaskData[i] <= 0.0)
\* data[i * 4 + 3] = 0; a write past the end of data has no effect
maskedAlpha(src, filtered) ==
    [k \in 1..Len(src.alpha) |->
        IF k <= Len(filtered) /\ filtered[k] <= 0 THEN 0 ELSE src.alpha[k]]

filteredMask(m) ==
    largestComponent([width |-> m.width, height |-> m.height, values |-> m.data])

\* variant of applySamMask without the test of the mask length
applySamMaskUnchecked(src, m) ==
    [applied |-> TRUE,
     src |-> [src EXCEPT !.alpha = maskedAlpha(src, filteredMask(m).values)]]

\* the canvas applySamMask builds from the current image and the mask, and
\* whether it gets as far as putImageData
applySamMask(src, m) ==
    LET filtered == filteredMask(m)
    IN  IF filtered.status # "ok" \/ Len(filtered.values) # src.width * src.height
        THEN [applied |-> FALSE, src |-> src]
        ELSE [applied |-> TRUE,
              src |-> [src EXCEPT !.alpha = maskedAlpha(src, filtered.values)]]

currentSrc == history[currentStep + 1]

\* toolbar button: setMode(mode === m ? null : m)
SetMode(m) ==
    /\ history # <<>>
    /\ mode' = IF mode = m THEN NoMode ELSE m
    /\ lastOp' = Note("setMode")
    /\ UNCHANGED <<history, currentStep, isLoading, samPoints, samMask, bgJobs>>
    /\ UNCHANGED outsideEditor

\* rotateImage: pushToHistory(canvas.toDataURL())
RotateImage ==
    /\ history # <<>>
    /\ currentStep + 2 <= MaxHistory
    /\ LET newSrc == rotateImage(currentSrc)
           pushed == pushToHistory(history, currentStep, newSrc)
       IN  /\ history' = pushed.history
           /\ currentStep' = pushed.currentStep
           /\ lastOp' = Op("pushToHistory", newSrc, TRUE)
    /\ UNCHANGED <<mode, isLoading, samPoints, samMask, bgJobs>>
    /\ UNCHANGED outsideEditor

\* handleAutoRemoveBg up to its await: setIsLoading(true); the call keeps
\* the history and currentStep of its render
HandleAutoRemoveBg ==
    /\ history # <<>>
    /\ mode = "BACKGROUND"
    /\ Len(bgJobs) < MaxBgJobs
    /\ currentStep + 2 <= MaxHistory
    /\ isLoading' = TRUE
    /\ bgJobs' = Append(bgJobs, [history |-> history, currentStep |-> currentStep])
    /\ lastOp' = Note("handleAutoRemoveBg")
    /\ UNCHANGED <<history, currentStep, mode, samPoints, samMask>>
    /\ UNCHANGED outsideEditor

RemoveAt(seq, k) == SubSeq(seq, 1, k - 1) \o SubSeq(seq, k + 1, Len(seq))

\* removeBackgroundAuto resolves: pushToHistory(newSrc) of the call's
\* render, setMode(null), and the finally block
RemoveBgResolved(k) ==
    /\ k \in 1..Len(bgJobs)
    /\ LET job == bgJobs[k]
           newSrc == removeBackgroundAuto(job.history[job.currentStep + 1])
           pushed == pushToHistory(job.history, job.currentStep, newSrc)
       IN  /\ history' = pushed.history
           /\ currentStep' = pushed.currentStep
           /\ lastOp' = Op("pushToHistory", newSrc, TRUE)
    /\ mode' = NoMode
    /\ isLoading' = FALSE
    /\ bgJobs' = RemoveAt(bgJobs, k)
    /\ UNCHANGED <<samPoints, samMask>>
    /\ UNCHANGED outsideEditor

\* removeBackgroundAuto rejects: the catch and the finally block
RemoveBgRejected(k) ==
    /\ k \in 1..Len(bgJobs)
    /\ isLoading' = FALSE
    /\ bgJobs' = RemoveAt(bgJobs, k)
    /\ lastOp' = Note("removeBgFailed")
    /\ UNCHANGED <<history, currentStep, mode, samPoints, samMask>>
    /\ UNCHANGED outsideEditor

\* handleSamClick: setSamPoints([...samPoints, {x, y, label}])
HandleSamClick(point) ==
    /\ history # <<>>
    /\ mode = "SEGMENT"
    /\ ~isLoading
    /\ Len(samPoints) < MaxSamPoints
    /\ samPoints' = Append(samPoints, point)
    /\ lastOp' = Note("handleSamClick")
    /\ UNCHANGED <<history, currentStep, mode, isLoading, samMask, bgJobs>>
    /\ UNCHANGED outsideEditor

\* handleGenerateMask with generateMask resolved: setSamMask(mask)
HandleGenerateMask(m) ==
    /\ history # <<>>
    /\ mode = "SEGMENT"
    /\ samPoints # <<>>
    /\ samMask' = m
    /\ isLoading' = FALSE
    /\ lastOp' = Note("handleGenerateMask")
    /\ UNCHANGED <<history, currentStep, mode, samPoints, bgJobs>>
    /\ UNCHANGED outsideEditor

\* the Apply button of the SEGMENT options bar: applySamMask
ApplySamMask ==
    /\ history # <<>>
    /\ mode = "SEGMENT"
    /\ samMask.present
    /\ currentStep + 2 <= MaxHistory
    /\ LET result == applySamMask(currentSrc, samMask)
           pushed == pushToHistory(history, currentStep, result.src)
       IN  IF result.applied
           THEN /\ history' = pushed.history
                /\ currentStep' = pushed.currentStep
                /\ mode' = NoMode
                /\ samPoints' = <<>>
                /\ samMask' = NoSamMask
                /\ lastOp' = Op("applySamMask", result.src, TRUE)
           ELSE /\ lastOp' = Op("applySamMask", NoImage, FALSE)
                /\ UNCHANGED <<history, currentStep, mode, samPoints, samMask>>
    /\ UNCHANGED <<isLoading, bgJobs>>
    /\ UNCHANGED outsideEditor

\* the Undo button (disabled at step 0 and while loading): handleUndo
HandleUndo ==
    /\ history # <<>>
    /\ ~isLoading
    /\ lastOp' = Op("handleUndo", NoImage, currentStep > 0)
    /\ IF currentStep > 0
       THEN /\ currentStep' = currentStep - 1
            /\ mode' = NoMode
            /\ samPoints' = <<>>
            /\ samMask' = NoSamMask
       ELSE UNCHANGED <<currentStep, mode, samPoints, samMask>>
    /\ UNCHANGED <<history, isLoading, bgJobs>>
    /\ UNCHANGED outsideEditor

IdleEditor ==
    /\ history = <<>>
    /\ currentStep = 0
    /\ mode = NoMode
    /\ isLoading = FALSE
    /\ samPoints = <<>>
    /\ samMask = NoSamMask
    /\ bgJobs = <<>>
    /\ lastOp = NoOp

(***************************************************************************)
(* samService: the module state samState and the invocations of            *)
(* loadSAMModel.  A call runs without interruption up to its first await   *)
(* (SamModel.from_pretrained) and again from each settled await to the     *)
(* next one (AutoProcessor.from_pretrained) or to its end; loads[id] is    *)
(* the position of invocation id, with the samState it found on arrival    *)
(* and left at its first await or exit (history).                          *)
(***************************************************************************)
NullSam == "null"

SAM_MODELS == {"Xenova/slimsam-77-uniform", "Xenova/sam-vit-b"}

MaxLoads == 3

InitialSamState ==
    [model |-> NullSam, processor |-> NullSam, imageEmbeddings |-> NullSam,
     imageInputs |-> NullSam, rawImage |-> NullSam, currentModelId |-> NullSam,
     isInitializing |-> FALSE]

NotCalled ==
    [pc |-> "notCalled", modelId |-> NullSam, duringLoad |-> FALSE,
     seen |-> InitialSamState, left |-> InitialSamState]

\* if (samState.model && samState.processor && samState.currentModelId === modelId)
alreadyLoaded(st, modelId) ==
    st.model # NullSam /\ st.processor # NullSam /\ st.currentModelId = modelId

\* variant of the guard that lets every call through
alreadyInitializingNever(st) == FALSE

\* if (samState.isInitializing) throw
alreadyInitializing(st) == st.isInitializing

\* the assignments before the try block
resetForLoad(st) ==
    [st EXCEPT !.model = NullSam, !.processor = NullSam, !.imageEmbeddings = NullSam,
               !.imageInputs = NullSam, !.currentModelId = NullSam,
               !.isInitializing = TRUE]

\* invocation id is at one of its awaits
LoadInFlight(id) == loads[id].pc \in {"awaitModel", "awaitProcessor"}

\* loadSAMModel(modelId) from its entry to its return, its throw or its
\* first await
LoadSAMModel(id, modelId) ==
    /\ loads[id].pc = "notCalled"
    /\ LET pcNext == IF alreadyLoaded(samState, modelId) THEN "returned"
                     ELSE IF alreadyInitializing(samState) THEN "threw"
                     ELSE "awaitModel"
           stNext == IF pcNext = "awaitModel" THEN resetForLoad(samState) ELSE samState
       IN  /\ samState' = stNext
           /\ loads' = [loads EXCEPT ![id] =
                           [pc |-> pcNext, modelId |-> modelId,
                            duringLoad |-> \E j \in DOMAIN loads : LoadInFlight(j),
                            seen |-> samState, left |-> stNext]]
    /\ UNCHANGED outsideLoader

\* SamModel.from_pretrained resolves: samState.model is set and the call
\* waits for AutoProcessor.from_pretrained
ModelResolved(id) ==
    /\ loads[id].pc = "awaitModel"
    /\ samState' = [samState EXCEPT !.model = loads[id].modelId]
    /\ loads' = [loads EXCEPT ![id].pc = "awaitProcessor"]
    /\ UNCHANGED outsideLoader

\* SamModel.from_pretrained rejects: catch, finally, rethrow
ModelRejected(id) ==
    /\ loads[id].pc = "awaitModel"
    /\ samState' = [samState EXCEPT !.isInitializing = FALSE]
    /\ loads' = [loads EXCEPT ![id].pc = "rejected"]
    /\ UNCHANGED outsideLoader

\* AutoProcessor.from_pretrained resolves: processor and currentModelId are
\* set, then the finally block
ProcessorResolved(id) ==
    /\ loads[id].pc = "awaitProcessor"
    /\ samState' = [samState EXCEPT !.processor = loads[id].modelId,
                                    !.currentModelId = loads[id].modelId,
                                    !.isInitializing = FALSE]
    /\ loads' = [loads EXCEPT ![id].pc = "resolved"]
    /\ UNCHANGED outsideLoader

\* AutoProcessor.from_pretrained rejects: catch, finally, rethrow
ProcessorRejected(id) ==
    /\ loads[id].pc = "awaitProcessor"
    /\ samState' = [samState EXCEPT !.isInitializing = FALSE]
    /\ loads' = [loads EXCEPT ![id].pc = "rejected"]
    /\ UNCHANGED outsideLoader

IdleLoader ==
    /\ samState = InitialSamState
    /\ loads = <<>>

(***************************************************************************)
(* SplitEditor and App.executeSplits.  The editor is shown once detection  *)
(* has resolved (seamsDone); it edits the rowSplits and colSplits of App   *)
(* through onSplitsChange, and its confirm button hands them to            *)
(* executeSplits, which cuts the image into resultImages.                  *)
(***************************************************************************)
NoDrag == [type |-> "none", index |-> 0]

NotSplit == <<(<<0, 0>>)>>

MaxSplits == 2

\* the splits of an axis and the image length along it
SplitsOf(type) == IF type = "row" THEN rowSplits ELSE colSplits

DimensionOf(type) == IF type = "row" THEN imageData.height ELSE imageData.width

\* newRows[index] = value
SetAt(splits, index, value) == [splits EXCEPT ![index + 1] = value]

\* the first largest gap of [0, ...splits, dimension], as <<start, gap>>
RECURSIVE MaxGapScan(_, _, _)
MaxGapScan(points, i, best) ==
    IF i > Len(points) - 1 THEN best
    ELSE LET gap == points[i + 1] - points[i]
         IN  MaxGapScan(points, i + 1, IF gap > best[2] THEN <<points[i], gap>> ELSE best)

\* Math.round(insertPos), insertPos = points[i] + gap / 2 for the first
\* largest gap, dimension / 2 when no gap is positive
InsertPos(splits, dimension) ==
    LET best == MaxGapScan(<<0>> \o splits \o <<dimension>>, 1, <<0, 0>>)
    IN  IF best[2] = 0 THEN (dimension + 1) \div 2
        ELSE (2 * best[1] + best[2] + 1) \div 2

\* the sizes of the images executeSplits pushes, row by row
RECURSIVE CutRow(_, _, _)
CutRow(colPoints, c, h) ==
    IF c > Len(colPoints) - 1 THEN <<>>
    ELSE LET w == colPoints[c + 1] - colPoints[c]
         IN  (IF w <= 0 THEN <<>> ELSE <<(<<w, h>>)>>) \o CutRow(colPoints, c + 1, h)

RECURSIVE CutRows(_, _, _)
CutRows(rowPoints, colPoints, r) ==
    IF r > Len(rowPoints) - 1 THEN <<>>
    ELSE LET h == rowPoints[r + 1] - rowPoints[r]
         IN  (IF h <= 0 THEN <<>> ELSE CutRow(colPoints, 1, h))
                 \o CutRows(rowPoints, colPoints, r + 1)

executeSplits(finalRowSplits, finalColSplits, width, height) ==
    CutRows(<<0>> \o SortNum(finalRowSplits) \o <<height>>,
            <<0>> \o SortNum(finalColSplits) \o <<width>>, 1)

\* the editor is on screen
EditorShown == seamsDone /\ resultImages = NotSplit

SetSplits(type, splits) ==
    /\ rowSplits' = IF type = "row" THEN splits ELSE rowSplits
    /\ colSplits' = IF type = "col" THEN splits ELSE colSplits

\* handleMouseDown on the handle of line index
HandleMouseDown(type, index) ==
    /\ EditorShown
    /\ activeDrag = NoDrag
    /\ index \in 0..(Len(SplitsOf(type)) - 1)
    /\ activeDrag' = [type |-> type, index |-> index]
    /\ UNCHANGED <<resultImages, seamVars, fillVars, maskVars, editorVars, loaderVars, workerVars>>

\* handleMouseMove with the pointer at line value of the image (clamped to
\* 0..dimension and rounded): the dragged entry is replaced and the array
\* sorted
HandleMouseMove(value) ==
    /\ EditorShown
    /\ activeDrag # NoDrag
    /\ value \in 0..DimensionOf(activeDrag.type)
    /\ SetSplits(activeDrag.type,
                 SortNum(SetAt(SplitsOf(activeDrag.type), activeDrag.index, value)))
    /\ UNCHANGED <<activeDrag, resultImages, imageData, seamsDone, fillVars, maskVars,
                   editorVars, loaderVars, workerVars>>

\* handleMouseUp (also onMouseLeave)
HandleMouseUp ==
    /\ EditorShown
    /\ activeDrag # NoDrag
    /\ activeDrag' = NoDrag
    /\ UNCHANGED <<resultImages, seamVars, fillVars, maskVars, editorVars, loaderVars, workerVars>>

\* addRow / addCol
AddSplit(type) ==
    /\ EditorShown
    /\ activeDrag = NoDrag
    /\ Len(SplitsOf(type)) < MaxSplits
    /\ SetSplits(type, SortNum(Append(SplitsOf(type),
                                      InsertPos(SplitsOf(type), DimensionOf(type)))))
    /\ UNCHANGED <<activeDrag, resultImages, imageData, seamsDone, fillVars, maskVars,
                   editorVars, loaderVars, workerVars>>

\* removeSplit(type, index)
RemoveSplit(type, index) ==
    /\ EditorShown
    /\ activeDrag = NoDrag
    /\ index \in 0..(Len(SplitsOf(type)) - 1)
    /\ SetSplits(type, RemoveAt(SplitsOf(type), index + 1))
    /\ UNCHANGED <<activeDrag, resultImages, imageData, seamsDone, fillVars, maskVars,
                   editorVars, loaderVars, workerVars>>

\* the confirm button: onConfirm(rowSplits, colSplits), i.e. executeSplits
\* up to setResultImages(newImages)
ExecuteSplits ==
    /\ EditorShown
    /\ activeDrag = NoDrag
    /\ resultImages' = executeSplits(rowSplits, colSplits, imageData.width,
                                     imageData.height)
    /\ UNCHANGED <<activeDrag, seamVars, fillVars, maskVars, editorVars, loaderVars, workerVars>>

IdleSplit ==
    /\ activeDrag = NoDrag
    /\ resultImages = NotSplit

(***************************************************************************)
(* The SAM worker (sam.worker).  A request is one invocation of            *)
(* self.onmessage; its pc is the await it is suspended at.  The worker is  *)
(* single-threaded, so an action is the code from one await to the next.  *)
(***************************************************************************)
Null == "null"

MaxRequests == 3

MaxProgress == 1

WorkerModels == {"slimsam", "sam-base"}

RequestTypes == {"loadModel", "computeEmbeddings", "generateMask", "ping"}

InitialWorkerSam ==
    [model |-> Null, processor |-> Null, imageEmbeddings |-> Null,
     imageInputs |-> Null, rawImage |-> Null, currentModelId |-> Null]

NotSent == [type |-> "none", modelId |-> Null, pc |-> "unsent", posted |-> <<>>]

\* self.postMessage({ id, type }) by the request, and its return
Post(req, type) == [req EXCEPT !.posted = Append(@, type)]

Finish(req, type) == [Post(req, type) EXCEPT !.pc = "done"]

\* variant of the catch block that swallows the error
FailSilently(req) == [req EXCEPT !.pc = "done"]

\* the catch block of self.onmessage
Fail(req) == Finish(req, "error")

\* the request ids in use, in the order of arrival
NextRequestId ==
    IF \E id \in 1..MaxRequests : requests[id].pc = "unsent"
    THEN CHOOSE id \in 1..MaxRequests :
            /\ requests[id].pc = "unsent"
            /\ \A j \in 1..(id - 1) : requests[j].pc # "unsent"
    ELSE 0

\* self.onmessage up to the first await of the handler
OnMessage(type, modelId) ==
    LET id == NextRequestId
        req == [type |-> type, modelId |-> IF type = "loadModel" THEN modelId ELSE Null,
                pc |-> "running", posted |-> <<>>]
    IN  /\ id # 0
        /\ requests' = [requests EXCEPT ![id] =
              CASE type = "loadModel" -> [req EXCEPT !.pc = "cache"]
                [] type = "computeEmbeddings" ->
                     IF workerSam.model = Null \/ workerSam.processor = Null
                     THEN Fail(req)
                     ELSE [req EXCEPT !.pc = "fromURL"]
                [] type = "generateMask" ->
                     IF \/ workerSam.model = Null
                        \/ workerSam.processor = Null
                        \/ workerSam.imageEmbeddings = Null
                        \/ workerSam.rawImage = Null
                        \/ workerSam.imageInputs = Null
                     THEN Fail(req)
                     ELSE [req EXCEPT !.pc = "run"]
                [] OTHER -> Fail(req)]
        /\ UNCHANGED <<workerSam, cacheCheckDone, coreVars, editorVars, loaderVars, splitVars>>

\* handleLoadModel after await ensureCacheChecked()
CacheChecked(id) ==
    LET req == requests[id]
        loaded == /\ workerSam.model # Null
                  /\ workerSam.processor # Null
                  /\ workerSam.currentModelId = req.modelId
    IN  /\ req.pc = "cache"
        /\ cacheCheckDone' = TRUE
        /\ requests' = [requests EXCEPT ![id] =
              IF loaded THEN Finish(req, "modelLoaded") ELSE [req EXCEPT !.pc = "model"]]
        /\ workerSam' =
              IF loaded THEN workerSam
              ELSE [workerSam EXCEPT !.model = Null, !.processor = Null,
                                     !.imageEmbeddings = Null, !.imageInputs = Null,
                                     !.currentModelId = Null]
        /\ UNCHANGED <<coreVars, editorVars, loaderVars, splitVars>>

\* progress_callback with status 'progress', called by the library while
\* SamModel.from_pretrained is pending
ProgressCallback(id) ==
    /\ requests[id].pc = "model"
    /\ Len(requests[id].posted) < MaxProgress
    /\ requests' = [requests EXCEPT ![id] = Post(@, "progress")]
    /\ UNCHANGED <<workerSam, cacheCheckDone, coreVars, editorVars, loaderVars, splitVars>>

\* handleLoadModel after SamModel.from_pretrained and after
\* AutoProcessor.from_pretrained settle; ok = resolved
LoadModelSettles(id, ok) ==
    LET req == requests[id]
    IN  /\ req.pc \in {"model", "processor"}
        /\ requests' = [requests EXCEPT ![id] =
              IF ~ok THEN Fail(req)
              ELSE IF req.pc = "model" THEN [req EXCEPT !.pc = "processor"]
              ELSE Finish(req, "modelLoaded")]
        /\ workerSam' =
              IF ~ok THEN workerSam
              ELSE IF req.pc = "model" THEN [workerSam EXCEPT !.model = req.modelId]
              ELSE [workerSam EXCEPT !.processor = req.modelId,
                                     !.currentModelId = req.modelId]
        /\ UNCHANGED <<cacheCheckDone, coreVars, editorVars, loaderVars, splitVars>>

\* handleComputeEmbeddings after RawImage.fromURL, samState.processor(image)
\* and get_image_embeddings settle; calling a samState.processor or reading
\* a samState.model that a load has reset to null throws a TypeError
ComputeEmbeddingsSettles(id, ok) ==
    LET req == requests[id]
    IN  /\ req.pc \in {"fromURL", "process", "embed"}
        /\ requests' = [requests EXCEPT ![id] =
              IF ~ok THEN Fail(req)
              ELSE CASE req.pc = "fromURL" ->
                          IF workerSam.processor = Null THEN Fail(req)
                          ELSE [req EXCEPT !.pc = "process"]
                     [] req.pc = "process" ->
                          IF workerSam.model = Null THEN Fail(req)
                          ELSE [req EXCEPT !.pc = "embed"]
                     [] OTHER -> Finish(req, "embeddingsComputed")]
        /\ workerSam' =
              IF ~ok THEN workerSam
              ELSE CASE req.pc = "fromURL" -> [workerSam EXCEPT !.rawImage = "image"]
                     [] req.pc = "process" -> [workerSam EXCEPT !.imageInputs = "inputs"]
                     [] OTHER -> [workerSam EXCEPT !.imageEmbeddings = "embeddings"]
        /\ UNCHANGED <<cacheCheckDone, coreVars, editorVars, loaderVars, splitVars>>

\* handleGenerateMask after samState.model(...) and post_process_masks settle
GenerateMaskSettles(id, ok) ==
    LET req == requests[id]
    IN  /\ req.pc \in {"run", "post"}
        /\ requests' = [requests EXCEPT ![id] =
              IF ~ok THEN Fail(req)
              ELSE IF req.pc = "run"
                   THEN IF workerSam.processor = Null THEN Fail(req)
                        ELSE [req EXCEPT !.pc = "post"]
              ELSE Finish(req, "maskGenerated")]
        /\ UNCHANGED <<workerSam, cacheCheckDone, coreVars, editorVars, loaderVars, splitVars>>

\* an awaited call of request id settles
AwaitSettles(id) ==
    \/ CacheChecked(id)
    \/ \E ok \in BOOLEAN : LoadModelSettles(id, ok)
    \/ \E ok \in BOOLEAN : ComputeEmbeddingsSettles(id, ok)
    \/ \E ok \in BOOLEAN : GenerateMaskSettles(id, ok)

IdleWorker ==
    /\ workerSam = InitialWorkerSam
    /\ cacheCheckDone = FALSE
    /\ requests = [id \in 1..MaxRequests |-> NotSent]

IdleUi == IdleEditor /\ IdleLoader /\ IdleSplit /\ IdleWorker

IdleSeams ==
    /\ imageData = NoImage
    /\ rowSplits = <<>>
    /\ colSplits = <<>>
    /\ seamsDone = FALSE

IdleFill ==
    /\ pixels = NoImage
    /\ lastFill = NoFill
    /\ fillCall = NoCall

IdleMask ==
    /\ mask = NoMask
    /\ maskResult = NoResult

InitSeams ==
    /\ imageData \in {MkImage(d) : d \in Descriptors}
    /\ rowSplits = <<>>
    /\ colSplits = <<>>
    /\ seamsDone = FALSE
    /\ IdleFill
    /\ IdleMask
    /\ IdleUi

NextSeams == DetectSeams

SpecSeams == InitSeams /\ [][NextSeams]_vars

InitStages ==
    /\ imageData \in {MkImage(d) : d \in StageDescriptors}
    /\ rowSplits = <<>>
    /\ colSplits = <<>>
    /\ seamsDone = FALSE
    /\ IdleFill
    /\ IdleMask
    /\ IdleUi

SpecStages == InitStages /\ [][NextSeams]_vars

InitEdges ==
    /\ imageData \in {MkEdgeImage(d) : d \in EdgeDescs \cup NearEdgeDescs}
    /\ rowSplits = <<>>
    /\ colSplits = <<>>
    /\ seamsDone = FALSE
    /\ IdleFill
    /\ IdleMask
    /\ IdleUi

SpecEdges == InitEdges /\ [][NextSeams]_vars

\* the stepped images on the axis of 200 lines
InitPeaks ==
    /\ imageData \in {MkEdgeImage(d) : d \in ShortEdgeDescs}
    /\ rowSplits = <<>>
    /\ colSplits = <<>>
    /\ seamsDone = FALSE
    /\ IdleFill
    /\ IdleMask
    /\ IdleUi

SpecPeaks == InitPeaks /\ [][NextSeams]_vars

InitFill ==
    /\ pixels \in FillBuffers
    /\ lastFill = NoFill
    /\ fillCall = NoCall
    /\ IdleSeams
    /\ IdleMask
    /\ IdleUi

NextFill ==
    \E seed \in Seeds(pixels) : \E tolerance \in Tolerances :
        FloodFill(seed[1], seed[2], tolerance)

SpecFill == InitFill /\ [][NextFill]_vars

InitFillUniform ==
    /\ pixels \in UniformBuffers
    /\ lastFill = NoFill
    /\ fillCall = NoCall
    /\ IdleSeams
    /\ IdleMask
    /\ IdleUi

\* clicks that land inside the canvas
NextFillInside ==
    \E seed \in {sd \in Seeds(pixels) : InBounds(pixels, sd[1], sd[2])} :
        \E tolerance \in Tolerances :
            FloodFill(seed[1], seed[2], tolerance)

SpecFillUniform == InitFillUniform /\ [][NextFillInside]_vars

InitFillLoop ==
    /\ pixels \in FillBuffers
    /\ lastFill = NoFill
    /\ fillCall = NoCall
    /\ IdleSeams
    /\ IdleMask
    /\ IdleUi

NextFillLoop ==
    \/ \E seed \in Seeds(pixels) : \E tolerance \in Tolerances :
           FillBegin(seed[1], seed[2], tolerance)
    \/ FillPop
    \/ FillEnd

\* floodFill is synchronous code on the single JavaScript thread: once
\* called, each iteration of its loop and its final putImageData run without
\* waiting for anything
SpecFillLoop ==
    InitFillLoop /\ [][NextFillLoop]_vars /\ WF_vars(FillPop) /\ WF_vars(FillEnd)

InitMask ==
    /\ mask \in Masks
    /\ maskResult = NoResult
    /\ IdleSeams
    /\ IdleFill
    /\ IdleUi

NextMask == LargestComponent

SpecMask == InitMask /\ [][NextMask]_vars

\* useState([imageSrc]), useState(0), useState(null), useState(false),
\* useState([]), useState(null)
InitEditor ==
    /\ history \in {<<src>> : src \in EditorSources}
    /\ currentStep = 0
    /\ mode = NoMode
    /\ isLoading = FALSE
    /\ samPoints = <<>>
    /\ samMask = NoSamMask
    /\ bgJobs = <<>>
    /\ lastOp = NoOp
    /\ IdleLoader
    /\ IdleSplit
    /\ IdleWorker
    /\ IdleSeams
    /\ IdleFill
    /\ IdleMask

\* the handlers around the history stack
NextHistory ==
    \/ \E m \in EditModes : SetMode(m)
    \/ RotateImage
    \/ HandleAutoRemoveBg
    \/ \E k \in 1..MaxBgJobs : RemoveBgResolved(k)
    \/ \E k \in 1..MaxBgJobs : RemoveBgRejected(k)
    \/ HandleUndo

SpecHistory == InitEditor /\ [][NextHistory]_vars

\* the handlers around the segmentation mask
NextSegment ==
    \/ \E m \in EditModes : SetMode(m)
    \/ RotateImage
    \/ HandleSamClick([x |-> 0, y |-> 0, label |-> 1])
    \/ \E m \in EditorMasks : HandleGenerateMask(m)
    \/ ApplySamMask
    \/ HandleUndo

SpecSegment == InitEditor /\ [][NextSegment]_vars

NextEditor == NextHistory \/ NextSegment

\* let samState = {...}: the module as loaded, no call made yet
InitLoader ==
    /\ samState = InitialSamState
    /\ loads = [id \in 1..MaxLoads |-> NotCalled]
    /\ IdleEditor
    /\ IdleSplit
    /\ IdleWorker
    /\ IdleSeams
    /\ IdleFill
    /\ IdleMask

NextLoader ==
    \/ \E id \in 1..MaxLoads : \E modelId \in SAM_MODELS : LoadSAMModel(id, modelId)
    \/ \E id \in 1..MaxLoads : ModelResolved(id)
    \/ \E id \in 1..MaxLoads : ModelRejected(id)
    \/ \E id \in 1..MaxLoads : ProcessorResolved(id)
    \/ \E id \in 1..MaxLoads : ProcessorRejected(id)

SpecLoader == InitLoader /\ [][NextLoader]_vars

\* images of 3 to 5 by 2 pixels, before their detection
InitSplit ==
    /\ imageData \in {MkImage(d) : d \in {t \in TintedDescs : t.h = MaxBarHeight}}
    /\ rowSplits = <<>>
    /\ colSplits = <<>>
    /\ seamsDone = FALSE
    /\ IdleFill
    /\ IdleMask
    /\ IdleUi

NextSplit ==
    \/ DetectSeams
    \/ \E type \in {"row", "col"} : \E index \in 0..(MaxSplits - 1) :
           HandleMouseDown(type, index)
    \/ \E value \in 0..Max2(imageData.width, imageData.height) : HandleMouseMove(value)
    \/ HandleMouseUp
    \/ \E type \in {"row", "col"} : AddSplit(type)
    \/ \E type \in {"row", "col"} : \E index \in 0..(MaxSplits - 1) :
           RemoveSplit(type, index)
    \/ ExecuteSplits

SpecSplit == InitSplit /\ [][NextSplit]_vars

InitWorker ==
    /\ IdleWorker
    /\ IdleEditor
    /\ IdleLoader
    /\ IdleSplit
    /\ IdleSeams
    /\ IdleFill
    /\ IdleMask

NextWorker ==
    \/ \E type \in RequestTypes : \E modelId \in WorkerModels : OnMessage(type, modelId)
    \/ \E id \in 1..MaxRequests : ProgressCallback(id)
    \/ \E id \in 1..MaxRequests : AwaitSettles(id)

\* every awaited call settles
SpecWorker ==
    /\ InitWorker
    /\ [][NextWorker]_vars
    /\ \A id \in 1..MaxRequests : WF_vars(AwaitSettles(id))

Init ==
    InitSeams \/ InitStages \/ InitEdges \/ InitPeaks \/ InitFill \/ InitFillUniform \/ InitFillLoop
        \/ InitMask \/ InitEditor \/ InitLoader
        \/ InitSplit \/ InitWorker

Next == NextSeams \/ NextFill \/ NextFillLoop \/ NextMask \/ NextEditor
        \/ NextLoader \/ NextSplit \/ NextWorker

Spec == Init /\ [][Next]_vars

(***************************************************************************)
(* Claims about detectSeams                                                *)
(***************************************************************************)
StrictlyIncreasing(s) == \A k \in 1..(Len(s) - 1) : s[k] < s[k + 1]

\* 0.02*limit < p < 0.98*limit for every p of s
StrictlyInside(s, limit) ==
    \A k \in 1..Len(s) : 100 * s[k] > 2 * limit /\ 100 * s[k] < 98 * limit

\* C1: for every image and each axis the returned array is strictly
\* increasing (hence free of duplicates) and every position p satisfies
\* 0.02*limit < p < 0.98*limit, limit being the image length along the axis.
InvC1_SplitsIncreasingInsideMargins ==
    seamsDone =>
        /\ StrictlyIncreasing(rowSplits)
        /\ StrictlyInside(rowSplits, imageData.height)
        /\ StrictlyIncreasing(colSplits)
        /\ StrictlyInside(colSplits, imageData.width)

\* a detection that returned several positions on both axes
WitC1_SeveralSplitsOnBothAxes ==
    seamsDone /\ Len(rowSplits) >= 2 /\ Len(colSplits) >= 2

\* every pixel of the image has the same R, G, B
IsUniformImage(img) ==
    \A x \in 0..(img.width - 1), y \in 0..(img.height - 1) :
        PixelAt(img, x, y) = PixelAt(img, 0, 0)

\* C2: for a uniform solid-colour image of any width and height detectSeams
\* returns rowSplits = [] and colSplits = [].
CexC2_UniformImageHasNoSplits ==
    (seamsDone /\ IsUniformImage(imageData)) => (rowSplits = <<>> /\ colSplits = <<>>)

\* the columns of colour fg that start a bar, and the last column of the bar
\* starting at a
BarStarts(img, fg) ==
    {x \in 0..(img.width - 1) :
        PixelAt(img, x, 0) = fg /\ (x = 0 \/ PixelAt(img, x - 1, 0) # fg)}

BarEnd(img, fg, a) ==
    CHOOSE b \in a..(img.width - 1) :
        /\ \A x \in a..b : PixelAt(img, x, 0) = fg
        /\ b = img.width - 1 \/ PixelAt(img, b + 1, 0) # fg

\* the two colours are at least 30 apart on some channel
ClearlyDifferent(c1, c2) ==
    Abs(c1.r - c2.r) >= 30 \/ Abs(c1.g - c2.g) >= 30 \/ Abs(c1.b - c2.b) >= 30

\* img is a background bg with exactly three full-height bars of colour fg,
\* each at least 4 px wide, all of one width, equally spaced, background on
\* both sides, and the bars covering less than half of the width
ThreeBarsOver(img, bg, fg) ==
    LET starts == BarStarts(img, fg)
    IN  /\ ClearlyDifferent(bg, fg)
        /\ \A x \in 0..(img.width - 1), y \in 0..(img.height - 1) :
               /\ PixelAt(img, x, y) = PixelAt(img, x, 0)
               /\ PixelAt(img, x, 0) \in {bg, fg}
        /\ PixelAt(img, 0, 0) = bg
        /\ PixelAt(img, img.width - 1, 0) = bg
        /\ Cardinality(starts) = 3
        /\ \E s1, s2, s3 \in starts :
               /\ s1 < s2 /\ s2 < s3
               /\ s2 - s1 = s3 - s2
               /\ BarEnd(img, fg, s1) - s1 >= 3
               /\ 2 * 3 * (BarEnd(img, fg, s1) - s1 + 1) < img.width
               /\ BarEnd(img, fg, s2) - s2 = BarEnd(img, fg, s1) - s1
               /\ BarEnd(img, fg, s3) - s3 = BarEnd(img, fg, s1) - s1

BarMidpoints(img, fg) ==
    {(a + BarEnd(img, fg, a)) \div 2 : a \in BarStarts(img, fg)}

\* C3: for every image made of a uniform background and three regularly
\* spaced full-height vertical bars (>= 4 px wide) of one solid colour that
\* differs from the background, colSplits holds exactly the three bar
\* midpoints and no other position.
CexC3_ThreeBarsGiveTheirMidpoints ==
    seamsDone =>
        LET bg == PixelAt(imageData, 0, 0)
        IN  \A x \in 0..(imageData.width - 1) :
                LET fg == PixelAt(imageData, x, 0)
                IN  ThreeBarsOver(imageData, bg, fg) =>
                        Range(colSplits) = BarMidpoints(imageData, fg)

(***************************************************************************)
(* Claims about floodFill                                                  *)
(***************************************************************************)
Positions(img) == (0..(img.width - 1)) \X (0..(img.height - 1))

AlphaAt(img, data, p) == data[getPixelIndex(img, p[1], p[2]) + 3]

RgbAt(img, data, p) ==
    LET idx == getPixelIndex(img, p[1], p[2])
    IN  <<data[idx], data[idx + 1], data[idx + 2]>>

\* positions are 4-adjacent
Adjacent(p, q) == Abs(p[1] - q[1]) + Abs(p[2] - q[2]) = 1

\* the 4-connected component of region inside the set M
RECURSIVE ComponentIn(_, _)
ComponentIn(region, M) ==
    LET next == region \cup {q \in M : \E p \in region : Adjacent(p, q)}
    IN  IF next = region THEN region ELSE ComponentIn(next, M)

\* M: the pixels that, before the call, have non-zero alpha and are within
\* tolerance of the seed colour on each channel
MatchSet(img, before, seed, tolerance) ==
    {p \in Positions(img) :
        /\ AlphaAt(img, before, p) # 0
        /\ \A c \in 1..3 :
               Abs(RgbAt(img, before, p)[c] - RgbAt(img, before, seed)[c]) <= tolerance}

LastSeed == <<lastFill.x, lastFill.y>>

SeedInBounds == lastFill.called /\ InBounds(pixels, lastFill.x, lastFill.y)

ChangedAlpha ==
    {p \in Positions(pixels) :
        AlphaAt(pixels, pixels.data, p) # AlphaAt(pixels, lastFill.before, p)}

\* C5: for an in-bounds seed with non-zero alpha the pixels whose alpha
\* floodFill changes are exactly the 4-connected component of the seed within
\* M (non-zero alpha and per-channel distance <= tolerance to the seed
\* colour, in the buffer before the call), and each of them ends with alpha 0.
InvC5_FillIsSeedComponent ==
    (SeedInBounds /\ AlphaAt(pixels, lastFill.before, LastSeed) # 0) =>
        LET M == MatchSet(pixels, lastFill.before, LastSeed, lastFill.tolerance)
            comp == ComponentIn({LastSeed}, M)
        IN  /\ ChangedAlpha = comp
            /\ \A p \in comp : AlphaAt(pixels, pixels.data, p) = 0

\* a fill whose component has several pixels, leaves matching pixels behind a
\* barrier untouched, and has transparent and non-matching pixels around
WitC5_ComponentSmallerThanMatchSet ==
    /\ SeedInBounds
    /\ AlphaAt(pixels, lastFill.before, LastSeed) # 0
    /\ LET M == MatchSet(pixels, lastFill.before, LastSeed, lastFill.tolerance)
           comp == ComponentIn({LastSeed}, M)
       IN  /\ Cardinality(comp) >= 2
           /\ comp # M
           /\ \E p \in Positions(pixels) : AlphaAt(pixels, lastFill.before, p) = 0
           /\ \E p \in Positions(pixels) :
                  p \notin M /\ AlphaAt(pixels, lastFill.before, p) # 0

\* every pixel of the buffer has the colour of pixel 0 and non-zero alpha
IsUniformOpaque(img, data) ==
    \A p \in Positions(img) :
        /\ RgbAt(img, data, p) = RgbAt(img, data, <<0, 0>>)
        /\ AlphaAt(img, data, p) # 0

AllTransparent(img, data) == \A p \in Positions(img) : AlphaAt(img, data, p) = 0

\* C6: on a buffer of one colour with non-zero alpha, floodFill from any
\* in-bounds seed with any tolerance >= 0 sets the alpha of every pixel to 0.
InvC6_UniformBufferFullyCleared ==
    (SeedInBounds /\ IsUniformOpaque(pixels, lastFill.before)) =>
        AllTransparent(pixels, pixels.data)

\* the 10x10 buffer filled from (5,5) with tolerance 0
WitC6_TenByTenFromCentre ==
    /\ SeedInBounds
    /\ pixels.width = 10 /\ pixels.height = 10
    /\ LastSeed = <<5, 5>>
    /\ lastFill.tolerance = 0
    /\ IsUniformOpaque(pixels, lastFill.before)
    /\ AllTransparent(pixels, pixels.data)

\* C7: floodFill changes no byte when the seed pixel's alpha is 0, and a
\* second call at the same in-bounds seed, with any tolerance, leaves the
\* buffer exactly as the first call left it.
InvC7_TransparentSeedNoOpAndIdempotent ==
    lastFill.called =>
        /\ (SeedInBounds /\ AlphaAt(pixels, lastFill.before, LastSeed) = 0) =>
               pixels.data = lastFill.before
        /\ (SeedInBounds /\ lastFill.repeated) => pixels.data = lastFill.before

\* a second call at the same seed, with the wider tolerance, on a buffer that
\* still has opaque pixels next to the seed
WitC7_RepeatedCallWithOpaqueNeighbour ==
    /\ SeedInBounds
    /\ lastFill.repeated
    /\ lastFill.tolerance = 3
    /\ \E p \in Positions(pixels) :
           Adjacent(p, LastSeed) /\ AlphaAt(pixels, pixels.data, p) # 0

\* C8: floodFill called with a seed outside the image fails with an
\* OutOfBounds error and leaves every byte of the buffer unchanged.
CexC8_OutOfBoundsSeedRejected ==
    (lastFill.called /\ ~InBounds(pixels, lastFill.x, lastFill.y)) =>
        /\ lastFill.outcome = "OutOfBounds"
        /\ pixels.data = lastFill.before

(***************************************************************************)
(* Claims about largestComponent                                           *)
(***************************************************************************)
MaskPos(m) == 1..Len(m.values)

\* positions k, l (1-based, row-major) of a width-wide grid are 4-adjacent
MaskAdjacent(k, l, width) ==
    \/ Abs(k - l) = width
    \/ Abs(k - l) = 1 /\ (k - 1) \div width = (l - 1) \div width

RECURSIVE MaskComponentIn(_, _, _)
MaskComponentIn(region, P, width) ==
    LET next == region \cup {l \in P : \E k \in region : MaskAdjacent(k, l, width)}
    IN  IF next = region THEN region ELSE MaskComponentIn(next, P, width)

\* the 4-connected components of the positions with logit > 0
MaskComponents(m) ==
    LET P == {k \in MaskPos(m) : m.values[k] > 0}
    IN  {MaskComponentIn({k}, P, m.width) : k \in P}

MinOf(S) == CHOOSE x \in S : \A y \in S : x <= y

\* the largest component, the one met first in raster order among equals;
\* {} when there is no positive logit
ExpectedKept(m) ==
    LET comps == MaskComponents(m)
        biggest == {c \in comps : \A d \in comps : Cardinality(d) <= Cardinality(c)}
    IN  IF comps = {} THEN {}
        ELSE CHOOSE c \in biggest : \A d \in biggest : MinOf(c) <= MinOf(d)

ShapeMatches(m) == Len(m.values) = m.width * m.height

\* C9: the result has the shape of the mask; the positions of the single
\* largest 4-connected component of positive logits (the first in raster
\* order among equally large ones) keep their values and every other
\* position holds a value <= 0.
InvC9_OnlyLargestComponentKept ==
    (maskResult # NoResult /\ ShapeMatches(mask)) =>
        /\ maskResult.status = "ok"
        /\ Len(maskResult.values) = Len(mask.values)
        /\ \A k \in MaskPos(mask) :
               IF k \in ExpectedKept(mask)
               THEN maskResult.values[k] = mask.values[k]
               ELSE maskResult.values[k] <= 0

\* a filtered mask with two largest components of equal size, of at least
\* two positions each
WitC9_TieBetweenLargest ==
    /\ maskResult.status = "ok"
    /\ \E c, d \in MaskComponents(mask) :
           /\ c # d
           /\ Cardinality(c) = Cardinality(d)
           /\ Cardinality(c) >= 2
           /\ \A e \in MaskComponents(mask) : Cardinality(e) <= Cardinality(c)

\* C10: with mask.length # width*height the call always fails with
\* ShapeMismatch and hands back no processed value.
InvC10_ShapeMismatchFails ==
    (maskResult # NoResult /\ ~ShapeMatches(mask)) =>
        /\ maskResult.status = "ShapeMismatch"
        /\ maskResult.values = <<>>

\* a call on a non-empty mask that is one value short of its shape
WitC10_MismatchedCall ==
    /\ maskResult # NoResult
    /\ Len(mask.values) = mask.width * mask.height - 1
    /\ \E k \in MaskPos(mask) : mask.values[k] > 0

(***************************************************************************)
(* Claims about the stages of detectAxis                                   *)
(***************************************************************************)
AxisSplits(isHorizontal) == IF isHorizontal THEN rowSplits ELSE colSplits

\* none of the three detectors that feed the candidate list found anything
NoDetectorFired(img, isHorizontal) ==
    /\ Gaps(img, isHorizontal) = <<>>
    /\ BgGaps(img, isHorizontal) = <<>>
    /\ MergedSolidLines(img, isHorizontal) = <<>>

\* C11: detectSeams resolves on degenerate buffers with empty arrays: a 1x1
\* image gives rowSplits = [] and colSplits = [], and on every axis where no
\* detector fires, or where no candidate survives the border filter, the
\* returned array is empty.
InvC11_DegenerateImagesGiveEmptyArrays ==
    seamsDone =>
        /\ (imageData.width = 1 /\ imageData.height = 1) =>
               (rowSplits = <<>> /\ colSplits = <<>>)
        /\ \A isHorizontal \in BOOLEAN :
               (\/ NoDetectorFired(imageData, isHorizontal)
                \/ MarginFiltered(imageData, isHorizontal) = <<>>) =>
                   AxisSplits(isHorizontal) = <<>>

\* the 1x1 image after detection
WitC11_OneByOneResolved ==
    /\ seamsDone
    /\ imageData.width = 1 /\ imageData.height = 1
    /\ rowSplits = <<>> /\ colSplits = <<>>

\* the candidate list of an axis before sorting and filtering
Combined(isHorizontal) ==
    Combine(MergedSolidLines(imageData, isHorizontal),
            BgGaps(imageData, isHorizontal),
            Gaps(imageData, isHorizontal))

\* the positions of the candidates of one type, in list order
PosOfType(candidates, type) ==
    LET sel == SelectSeq(candidates, LAMBDA c : c.type = type)
    IN  [k \in 1..Len(sel) |-> sel[k].pos]

\* the merge rule with "within 10 lines" read as a distance below 10:
\* entered is the set of background gaps that entered the list
MergeRule(isHorizontal) ==
    LET c == Combined(isHorizontal)
        solid == MergedSolidLines(imageData, isHorizontal)
        bg == BgGaps(imageData, isHorizontal)
        entered == Range(PosOfType(c, "bg"))
    IN  /\ PosOfType(c, "solid") = solid
        /\ \A k \in 1..Len(bg) :
               bg[k] \in entered <=>
                   /\ \A i \in 1..Len(solid) : Abs(solid[i] - bg[k]) >= 10
                   /\ \A j \in 1..(k - 1) :
                          bg[j] \in entered => Abs(bg[j] - bg[k]) >= 10
        /\ PosOfType(c, "bg") = SelectSeq(bg, LAMBDA g : g \in entered)
        /\ PosOfType(c, "gap") =
               IF solid = <<>> /\ entered = {}
               THEN Gaps(imageData, isHorizontal) ELSE <<>>
        /\ \A k \in 1..Len(c) : c[k].type \in {"solid", "bg", "gap"}
        /\ Range(AxisSplits(isHorizontal)) \subseteq {c[k].pos : k \in 1..Len(c)}

\* C12 (amended): every Solid candidate enters the list; a BackgroundGap
\* enters it if and only if every candidate already in the list (Solid or
\* earlier BackgroundGap) is 10 or more lines away, so a gap exactly 10 lines
\* from a candidate does enter; VarianceGap candidates enter if and only if
\* the list is empty after these two steps, before the margin filter, and
\* the returned positions all come from this list.
InvC12_MergeRuleBelowTen ==
    seamsDone => \A isHorizontal \in BOOLEAN : MergeRule(isHorizontal)

\* an axis with Solid candidates, a rejected background gap, and a
\* background gap that entered exactly 10 lines from a Solid candidate
WitC12_GapTenLinesFromSolid ==
    /\ seamsDone
    /\ \E isHorizontal \in BOOLEAN :
           LET c == Combined(isHorizontal)
               bg == BgGaps(imageData, isHorizontal)
           IN  /\ \E k \in 1..Len(bg) : bg[k] \notin Range(PosOfType(c, "bg"))
               /\ \E i, j \in 1..Len(c) :
                      /\ c[i].type = "solid" /\ c[j].type = "bg"
                      /\ Abs(c[i].pos - c[j].pos) = 10

\* C12 as stated, "within 10 lines" read as a distance of at most 10: no
\* BackgroundGap candidate has a candidate before it in the list at a
\* distance of 10 lines or less.
CexC12_NoGapWithinTenLines ==
    seamsDone =>
        \A isHorizontal \in BOOLEAN :
            LET c == Combined(isHorizontal)
            IN  \A i, j \in 1..Len(c) :
                    (i < j /\ c[j].type = "bg") => Abs(c[i].pos - c[j].pos) > 10

PosSeq(candidates) == [k \in 1..Len(candidates) |-> candidates[k].pos]

\* consecutive positions are at least limit/8 apart
SpacedByEighth(positions, limit) ==
    \A k \in 1..(Len(positions) - 1) : 8 * (positions[k + 1] - positions[k]) >= limit

\* C13: after the thinning pass the first margin-filtered candidate is kept
\* and consecutive kept candidates are at least limit/8 apart; the same
\* spacing holds between consecutive positions of the returned array.
InvC13_ThinnedSpacing ==
    seamsDone =>
        \A isHorizontal \in BOOLEAN :
            LET limit == Limit(imageData, isHorizontal)
                filtered == MarginFiltered(imageData, isHorizontal)
                thinned == Thinned(imageData, isHorizontal)
            IN  /\ filtered # <<>> => (thinned # <<>> /\ thinned[1] = filtered[1])
                /\ SpacedByEighth(PosSeq(thinned), limit)
                /\ SpacedByEighth(AxisSplits(isHorizontal), limit)

\* an axis on which the thinning pass dropped a candidate and kept several
WitC13_ThinningDroppedSome ==
    /\ seamsDone
    /\ \E isHorizontal \in BOOLEAN :
           /\ Len(Thinned(imageData, isHorizontal)) >= 2
           /\ Len(Thinned(imageData, isHorizontal))
                  < Len(MarginFiltered(imageData, isHorizontal))
           /\ Len(AxisSplits(isHorizontal)) >= 2

\* the gap sequence: the first position, then the consecutive differences
GapSeq(positions) ==
    [k \in 1..Len(positions) |->
        IF k = 1 THEN positions[1] ELSE positions[k] - positions[k - 1]]

\* |mean(members) - d| < 0.08 * limit
MeanWithinTolerance(members, d, limit) ==
    100 * Abs(SumSeq(members) - d * Len(members)) < 8 * limit * Len(members)

\* the clusters after the first n gaps: a gap joins the first cluster whose
\* running mean is within tolerance, else starts a cluster; with skipSmall a
\* gap below limit/8 is passed over
RECURSIVE ClustersAfter(_, _, _, _)
ClustersAfter(gapSeq, n, limit, skipSmall) ==
    IF n = 0 THEN <<>>
    ELSE LET prev == ClustersAfter(gapSeq, n - 1, limit, skipSmall)
             d == gapSeq[n]
             hits == {k \in 1..Len(prev) : MeanWithinTolerance(prev[k], d, limit)}
         IN  IF skipSmall /\ 8 * d < limit THEN prev
             ELSE IF hits = {} THEN Append(prev, <<d>>)
             ELSE [prev EXCEPT ![MinOf(hits)] = Append(@, d)]

\* the cluster with the most members, the first formed among equals
BaseCluster(clusters) ==
    clusters[MinOf({k \in 1..Len(clusters) :
                       \A m \in 1..Len(clusters) : Len(clusters[m]) <= Len(clusters[k])})]

\* position p is within 0.08*limit of round(p/base)*base, base the mean of
\* members; round(x) is the integer m with m - 1/2 <= x < m + 1/2
WithinGridTolerance(p, members, limit) ==
    LET sum == SumSeq(members)
        len == Len(members)
    IN  \E m \in 0..(p + 1) :
            /\ (2 * m - 1) * sum <= 2 * p * len
            /\ 2 * p * len < (2 * m + 1) * sum
            /\ 100 * Abs(p * len - m * sum) < 8 * limit * len

\* a base unit exists: the largest cluster has at least 2 members
HasBaseUnit(clusters) == clusters # <<>> /\ Len(BaseCluster(clusters)) >= 2

\* the positions the grid validation keeps; aboveTwo: it only runs on more
\* than 2 candidates
ExpectedGrid(positions, limit, skipSmall, aboveTwo) ==
    LET clusters == ClustersAfter(GapSeq(positions), Len(positions), limit, skipSmall)
        onGrid == SelectSeq(positions,
                            LAMBDA p : WithinGridTolerance(p, BaseCluster(clusters), limit))
    IN  IF aboveTwo /\ Len(positions) <= 2 THEN positions
        ELSE IF ~HasBaseUnit(clusters) THEN positions
        ELSE IF onGrid = <<>> THEN positions
        ELSE onGrid

\* C15 (amended): the gap sequence is the first position followed by the
\* consecutive differences; a gap below limit/8 is passed over, every other
\* gap joins the first cluster whose running mean is within 0.08*limit or
\* starts a new one; when the largest cluster (the first formed among
\* equals) has at least 2 members its mean is the base unit and a candidate
\* is kept if and only if it is within 0.08*limit of round(pos/base)*base,
\* all candidates being kept when none is; the validation runs on more than
\* 2 candidates.
InvC15_GridValidationSkipsSmallGaps ==
    seamsDone =>
        \A isHorizontal \in BOOLEAN :
            LET limit == Limit(imageData, isHorizontal)
                thinned == PosSeq(Thinned(imageData, isHorizontal))
            IN  /\ PosSeq(GridFilter(Thinned(imageData, isHorizontal), limit))
                       = ExpectedGrid(thinned, limit, TRUE, TRUE)
                /\ AxisSplits(isHorizontal) = ExpectedGrid(thinned, limit, TRUE, TRUE)

\* an axis whose first gap is below limit/8 and on which the validation
\* removed a candidate and kept others
WitC15_SmallFirstGapAndRemoval ==
    /\ seamsDone
    /\ \E isHorizontal \in BOOLEAN :
           LET limit == Limit(imageData, isHorizontal)
               thinned == PosSeq(Thinned(imageData, isHorizontal))
           IN  /\ Len(thinned) > 2
               /\ 8 * thinned[1] < limit
               /\ AxisSplits(isHorizontal) # <<>>
               /\ Len(AxisSplits(isHorizontal)) < Len(thinned)

\* C15 as stated: every gap, the first position included, is clustered.
CexC15_EveryGapClustered ==
    seamsDone =>
        \A isHorizontal \in BOOLEAN :
            AxisSplits(isHorizontal) =
                ExpectedGrid(PosSeq(Thinned(imageData, isHorizontal)),
                             Limit(imageData, isHorizontal), FALSE, FALSE)

\* C14: the grid filter only removes candidates and never empties the list:
\* its result is a sub-list of the thinned list, it is the thinned list
\* itself when no candidate is within tolerance of a multiple of the base
\* unit, and the returned array is non-empty whenever the thinned list is.
InvC14_GridFilterNeverEmpties ==
    seamsDone =>
        \A isHorizontal \in BOOLEAN :
            LET limit == Limit(imageData, isHorizontal)
                thinned == Thinned(imageData, isHorizontal)
                kept == GridFilter(thinned, limit)
                clusters == ClustersAfter(GapSeq(PosSeq(thinned)), Len(thinned), limit, TRUE)
            IN  /\ kept = SelectSeq(thinned, LAMBDA c : c \in Range(kept))
                /\ (/\ HasBaseUnit(clusters)
                    /\ \A k \in 1..Len(thinned) :
                           ~WithinGridTolerance(thinned[k].pos, BaseCluster(clusters), limit))
                       => kept = thinned
                /\ thinned # <<>> => AxisSplits(isHorizontal) # <<>>
                /\ AxisSplits(isHorizontal) = PosSeq(kept)

\* an axis with a base unit and no candidate on its grid: the thinned list
\* comes back unchanged
WitC14_NoCandidateOnGrid ==
    /\ seamsDone
    /\ \E isHorizontal \in BOOLEAN :
           LET limit == Limit(imageData, isHorizontal)
               thinned == Thinned(imageData, isHorizontal)
               clusters == ClustersAfter(GapSeq(PosSeq(thinned)), Len(thinned), limit, TRUE)
           IN  /\ Len(thinned) > 2
               /\ HasBaseUnit(clusters)
               /\ \A k \in 1..Len(thinned) :
                      ~WithinGridTolerance(thinned[k].pos, BaseCluster(clusters), limit)
               /\ AxisSplits(isHorizontal) = PosSeq(thinned)

\* the elements of a finite set of numbers in increasing order
AscSeq(T) ==
    [k \in 1..Cardinality(T) |-> CHOOSE x \in T : Cardinality({y \in T : y < x}) = k - 1]

\* the last line of the maximal run of lines of S that starts at line a
RunEnd(S, a) == MinOf({b \in S : b >= a /\ (b + 1) \notin S /\ \A i \in a..b : i \in S})

\* the maximal runs of consecutive lines of S, as pairs <<first, last>>
MaximalRuns(S) == {<<a, RunEnd(S, a)>> : a \in {s \in S : (s - 1) \notin S}}

\* one candidate at floor((first+last)/2) for every maximal run of S with at
\* least minLength lines, in increasing order
RunMidpoints(S, minLength) ==
    AscSeq({(r[1] + r[2]) \div 2 : r \in {q \in MaximalRuns(S) : q[2] - q[1] + 1 >= minLength}})

\* the lines of an axis with variance below 100
LowVarianceLines(isHorizontal) ==
    {i \in 0..(Limit(imageData, isHorizontal) - 1) : VarianceBelow(imageData, isHorizontal, i, 100)}

\* C16 (amended): every maximal run of consecutive lines with variance < 100
\* whose last line is at least 2 after its first (3 lines or more), a run
\* ending at the last line of the axis included, yields exactly one
\* VarianceGap candidate at floor((first+last)/2); shorter runs yield none.
InvC16_GapsAreRunsOfThreeLines ==
    seamsDone =>
        \A isHorizontal \in BOOLEAN :
            Gaps(imageData, isHorizontal) = RunMidpoints(LowVarianceLines(isHorizontal), 3)

\* an axis with two emitted runs, one of exactly 3 lines and one ending at the
\* last line, and a 2-line run that yields nothing
WitC16_ShortRunAndRunAtEnd ==
    /\ seamsDone
    /\ \E isHorizontal \in BOOLEAN :
           LET runs == MaximalRuns(LowVarianceLines(isHorizontal))
           IN  /\ \E r \in runs : r[2] - r[1] = 1
               /\ \E r \in runs : r[2] - r[1] = 2
               /\ \E r \in runs :
                      r[2] = Limit(imageData, isHorizontal) - 1 /\ r[2] - r[1] >= 2
               /\ Len(Gaps(imageData, isHorizontal)) >= 2

\* C16 as stated: runs of length at least 2 yield a candidate.
CexC16_GapsAreRunsOfTwoLines ==
    seamsDone =>
        \A isHorizontal \in BOOLEAN :
            Gaps(imageData, isHorizontal) = RunMidpoints(LowVarianceLines(isHorizontal), 2)

\* the lines of an axis on which at least 98% of every 4th cross-pixel is
\* within 30 of the background colour on each channel
CoveredLines(isHorizontal) ==
    LET bg == BgColor(imageData)
        js == {j \in 0..(CrossLimit(imageData, isHorizontal) - 1) : j % 4 = 0}
        near(i, j) ==
            /\ Abs(Channel(imageData, isHorizontal, i, j, 0) - bg.r) < 30
            /\ Abs(Channel(imageData, isHorizontal, i, j, 1) - bg.g) < 30
            /\ Abs(Channel(imageData, isHorizontal, i, j, 2) - bg.b) < 30
    IN  {i \in 0..(Limit(imageData, isHorizontal) - 1) :
            100 * Cardinality({j \in js : near(i, j)}) >= 98 * Cardinality(js)}

\* C17 (amended): every maximal run of consecutive lines whose
\* background-match ratio is >= 0.98 and whose last line is at least 1 after
\* its first (2 lines or more), a run ending at the last line included,
\* yields exactly one BackgroundGap candidate at floor((first+last)/2); a
\* run of a single line yields none.
InvC17_BgGapsAreRunsOfTwoLines ==
    seamsDone =>
        \A isHorizontal \in BOOLEAN :
            BgGaps(imageData, isHorizontal) = RunMidpoints(CoveredLines(isHorizontal), 2)

\* an axis with a single covered line that yields nothing, a 2-line run that
\* is emitted, and an emitted run ending at the last line
WitC17_SingleLineRunAndRunAtEnd ==
    /\ seamsDone
    /\ \E isHorizontal \in BOOLEAN :
           LET runs == MaximalRuns(CoveredLines(isHorizontal))
           IN  /\ \E r \in runs : r[2] = r[1]
               /\ \E r \in runs : r[2] - r[1] = 1
               /\ \E r \in runs :
                      r[2] = Limit(imageData, isHorizontal) - 1 /\ r[2] > r[1]
               /\ Len(BgGaps(imageData, isHorizontal)) >= 2

\* C17 as stated: runs of length at least 1 yield a candidate.
CexC17_BgGapsAreAllRuns ==
    seamsDone =>
        \A isHorizontal \in BOOLEAN :
            BgGaps(imageData, isHorizontal) = RunMidpoints(CoveredLines(isHorizontal), 1)

\* the bucket of a sample: floor(c/10) per channel
BucketOf(c) == <<c.r \div 10, c.g \div 10, c.b \div 10>>

\* the indices of the samples that fall into bucket b
InBucket(samples, b) == {k \in 1..Len(samples) : BucketOf(samples[k]) = b}

\* the buckets with the largest number of samples
MostFrequentBuckets(samples) ==
    LET buckets == {BucketOf(samples[k]) : k \in 1..Len(samples)}
    IN  {b \in buckets :
            \A c \in buckets :
                Cardinality(InBucket(samples, c)) <= Cardinality(InBucket(samples, b))}

MaxOf(S) == CHOOSE x \in S : \A y \in S : y <= x

\* the sample whose arrival first brings a bucket to the final maximum count:
\* the last sample of a most frequent bucket, the earliest such sample when
\* several buckets are equally frequent
FirstToReachMaximum(samples) ==
    samples[MinOf({MaxOf(InBucket(samples, b)) : b \in MostFrequentBuckets(samples)})]

\* the earliest sample whose bucket is a most frequent bucket
FirstOfMostFrequent(samples) ==
    samples[MinOf(UNION {InBucket(samples, b) : b \in MostFrequentBuckets(samples)})]

\* C18 (amended): over the border samples in sampling order, the returned
\* colour is the full-precision sample whose arrival first raised a bucket
\* (floor(c/10) per channel) to the final maximum count, that is the last
\* sample of the most frequent bucket and not its first; with no samples
\* it is (255,255,255).
InvC18_BgColorIsSampleReachingMaximum ==
    /\ BgColorOf(<<>>) = [r |-> 255, g |-> 255, b |-> 255]
    /\ seamsDone =>
           BgColor(imageData) = FirstToReachMaximum(EdgeSamples(imageData))

\* an image whose most frequent bucket holds two different colours, the
\* first and the last sample of the bucket being different
WitC18_TwoColoursInWinningBucket ==
    /\ seamsDone
    /\ FirstOfMostFrequent(EdgeSamples(imageData))
           # FirstToReachMaximum(EdgeSamples(imageData))
    /\ BgColor(imageData) = [r |-> 251, g |-> 251, b |-> 251]

\* C18 as stated: the returned colour is the earliest sample of the most
\* frequent bucket.
CexC18_BgColorIsFirstOfBucket ==
    seamsDone => BgColor(imageData) = FirstOfMostFrequent(EdgeSamples(imageData))

\* channel ch of every 2nd cross-pixel of line i, in order
SolidSamples(isHorizontal, i, ch) ==
    [k \in 1..((CrossLimit(imageData, isHorizontal) + 1) \div 2) |->
        Channel(imageData, isHorizontal, i, 2 * (k - 1), ch)]

\* line i has variance < 30, at most 3 distinct floor(c/32) buckets among
\* its samples, and an average colour 30 or more away from the background
\* on at least one channel
QualifiesAsSolid(isHorizontal, i, bg) ==
    LET red == SolidSamples(isHorizontal, i, 0)
        green == SolidSamples(isHorizontal, i, 1)
        blue == SolidSamples(isHorizontal, i, 2)
        n == Len(red)
    IN  /\ VarianceBelow(imageData, isHorizontal, i, 30)
        /\ Cardinality({<<red[k] \div 32, green[k] \div 32, blue[k] \div 32>> :
                            k \in 1..n}) <= 3
        /\ \/ Abs(SumSeq(red) - n * bg.r) >= 30 * n
           \/ Abs(SumSeq(green) - n * bg.g) >= 30 * n
           \/ Abs(SumSeq(blue) - n * bg.b) >= 30 * n

QualifyingLines(isHorizontal) ==
    LET bg == BgColor(imageData)
    IN  {i \in 0..(Limit(imageData, isHorizontal) - 1) : QualifiesAsSolid(isHorizontal, i, bg)}

\* C19: a line is solid if and only if its variance is < 30, every 2nd
\* cross-pixel falls into at most 3 distinct floor(c/32) buckets and its
\* average colour differs from the background by >= 30 on some channel;
\* each maximal group of consecutive solid lines yields exactly one Solid
\* candidate at floor((first+last)/2).
InvC19_SolidLinesAndGroups ==
    seamsDone =>
        \A isHorizontal \in BOOLEAN :
            /\ SolidLines(imageData, isHorizontal) = AscSeq(QualifyingLines(isHorizontal))
            /\ MergedSolidLines(imageData, isHorizontal)
                   = RunMidpoints(QualifyingLines(isHorizontal), 1)

\* an axis with a group of several solid lines and a single solid line, and
\* a plain line that fails only the comparison with the background
WitC19_GroupsAndBackgroundLine ==
    /\ seamsDone
    /\ \E isHorizontal \in BOOLEAN :
           LET runs == MaximalRuns(QualifyingLines(isHorizontal))
           IN  /\ \E r \in runs : r[2] > r[1]
               /\ \E r \in runs : r[2] = r[1]
               /\ \E i \in 0..(Limit(imageData, isHorizontal) - 1) :
                      /\ VarianceBelow(imageData, isHorizontal, i, 30)
                      /\ i \notin QualifyingLines(isHorizontal)
               /\ Len(MergedSolidLines(imageData, isHorizontal)) >= 2

\* a and b are at least max(50, limit/15) apart
ApartByMinDistance(a, b, limit) == Abs(a - b) >= 50 /\ 15 * Abs(a - b) >= limit

\* the spacing filter turned the peaks of an axis into edges: a
\* highest-scoring peak is selected, the selected peaks are pairwise apart,
\* every discarded peak is close to a selected peak that scores no lower,
\* and edges is in increasing order
SpacingFilterHolds(peaks, score, edges, limit) ==
    LET selected == Range(edges)
    IN  /\ selected \subseteq peaks
        /\ peaks # {} => \E s \in selected : \A p \in peaks : score[p] <= score[s]
        /\ \A a, b \in selected : a # b => ApartByMinDistance(a, b, limit)
        /\ \A p \in peaks \ selected :
               \E s \in selected :
                   ~ApartByMinDistance(p, s, limit) /\ score[s] >= score[p]
        /\ \A k \in 1..(Len(edges) - 1) : edges[k] < edges[k + 1]

\* C20: after the spacing filter a highest-scoring peak is selected, any two
\* selected peaks are at least max(50, limit/15) apart, every discarded peak
\* is closer than that to a selected peak whose score is not lower, and the
\* selected peaks are returned in increasing position order.
InvC20_SpacingFilter ==
    seamsDone =>
        \A isHorizontal \in BOOLEAN :
            LET limit == Limit(imageData, isHorizontal)
                score == Smoothed(imageData, isHorizontal)
                peaks == Peaks(score, limit)
            IN  SpacingFilterHolds(Range(peaks), score,
                                   FilterEdges(peaks, score, limit), limit)

\* an axis of more than 750 lines with two selected peaks, the weaker one
\* first, and a peak discarded at 50 lines or more from a selected one
WitC20_WeakerFirstAndLongAxis ==
    /\ seamsDone
    /\ \E isHorizontal \in BOOLEAN :
           LET limit == Limit(imageData, isHorizontal)
               score == Smoothed(imageData, isHorizontal)
               peaks == Peaks(score, limit)
               edges == FilterEdges(peaks, score, limit)
           IN  /\ Len(edges) = 2
               /\ score[edges[1]] < score[edges[2]]
               /\ \E p \in Range(peaks) \ Range(edges) :
                      \E k \in 1..2 :
                          Abs(p - edges[k]) >= 50 /\ 15 * Abs(p - edges[k]) < limit

(***************************************************************************)
(* Claims about the gradient peaks                                         *)
(***************************************************************************)
\* the lines of the axis from i - 10 to i + last
PeakWindow(i, limit, last) == {k \in (i - 10)..(i + last) : k >= 0 /\ k < limit}

\* the lines that exceed mean + 3.5 * stdDev and have no larger score in
\* their window; with earliestOfTies a line is also excluded by an earlier
\* line of its window with an equal score
ExpectedPeaks(score, limit, last, earliestOfTies) ==
    LET stats == ScoreStats(score, limit)
    IN  {i \in 0..(limit - 1) :
            /\ stats.n > 0
            /\ AboveThreshold(score[i], stats)
            /\ \A k \in PeakWindow(i, limit, last) : score[k] <= score[i]
            /\ earliestOfTies =>
                   \A k \in PeakWindow(i, limit, last) : k < i => score[k] < score[i]}

FillRegion(img, before, x, y, tolerance) ==
    IF InBounds(img, x, y)
    THEN ComponentIn({<<x, y>>} \cap MatchSet(img, before, <<x, y>>, tolerance),
                     MatchSet(img, before, <<x, y>>, tolerance))
    ELSE LET startIdx == getPixelIndex(img, x, y)
         IN  IF ~InArray(before, startIdx) THEN {}
             ELSE {p \in Positions(img) :
                      /\ AlphaAt(img, before, p) # 0
                      /\ \A c \in 1..3 :
                             Abs(RgbAt(img, before, p)[c] - before[startIdx + c - 1])
                                 <= tolerance}

\* C22: a floodFill call leaves the buffer length and every R, G and B byte
\* unchanged, leaves the alpha of every pixel outside the filled region
\* unchanged, and changes an alpha byte only from a non-zero value to 0.
InvC22_FillOnlyClearsAlpha ==
    lastFill.called =>
        /\ DOMAIN pixels.data = DOMAIN lastFill.before
        /\ \A i \in DOMAIN lastFill.before :
               /\ i % 4 # 3 => pixels.data[i] = lastFill.before[i]
               /\ pixels.data[i] # lastFill.before[i] =>
                      lastFill.before[i] # 0 /\ pixels.data[i] = 0
        /\ ChangedAlpha \subseteq
               FillRegion(pixels, lastFill.before, lastFill.x, lastFill.y,
                          lastFill.tolerance)

\* a call that cleared part of the buffer and left a pixel of alpha 200 and
\* a pixel of another colour as they were
WitC22_PartialFillKeepsOtherAlpha ==
    /\ SeedInBounds
    /\ ChangedAlpha # {}
    /\ \E p \in Positions(pixels) :
           /\ p \notin ChangedAlpha
           /\ AlphaAt(pixels, pixels.data, p) = 200
    /\ \E p \in Positions(pixels) :
           /\ p \notin ChangedAlpha
           /\ AlphaAt(pixels, pixels.data, p) = 255
           /\ RgbAt(pixels, pixels.data, p) # RgbAt(pixels, pixels.data, LastSeed)

\* the call in progress was started at a seed inside the canvas
CallSeedInBounds == InBounds(pixels, fillCall.x, fillCall.y)

NoDuplicates(seq) == \A i, j \in 1..Len(seq) : seq[i] = seq[j] => i = j

\* in the loop of a call with an in-bounds seed: every coordinate on the
\* stack is inside the canvas, no coordinate was handed to colorMatch twice,
\* and the number of pops is within 4*width*height + 4
FillLoopSafe ==
    (fillCall.pc = "loop" /\ CallSeedInBounds) =>
        /\ \A k \in 1..Len(fillCall.stack) :
               InBounds(pixels, fillCall.stack[k][1], fillCall.stack[k][2])
        /\ NoDuplicates(fillCall.tests)
        /\ fillCall.pops <= MaxPops(pixels)

\* C23: floodFill with an in-bounds seed terminates: each coordinate is
\* tested and expanded at most once, every coordinate pushed on the stack is
\* inside [0,width) x [0,height), and the call in its loop always reaches
\* its return, with the stack empty, after finitely many pops.
ThmC23_FillTerminates ==
    /\ []FillLoopSafe
    /\ (fillCall.pc = "loop" /\ CallSeedInBounds)
           ~> (fillCall.pc = "done" /\ fillCall.stack = <<>>)

\* a call with an in-bounds seed has returned after popping coordinates that
\* were already visited (more pops than tests) and after testing every
\* pixel of a buffer of six or more pixels
WitC23_ReturnedAfterRevisits ==
    /\ fillCall.pc = "done"
    /\ CallSeedInBounds
    /\ fillCall.stack = <<>>
    /\ pixels.width * pixels.height >= 6
    /\ Len(fillCall.tests) = pixels.width * pixels.height
    /\ fillCall.pops > Len(fillCall.tests)
    /\ fillCall.data = pixels.data

(***************************************************************************)
(* Claims about ImageEditor.                                               *)
(***************************************************************************)
\* the length of the filtered mask differs from the pixel count of the
\* image the handler saw (no filtered mask counts as length 0)
MaskLengthMismatch(before) ==
    LET target == before.history[before.currentStep + 1]
    IN  Len(filteredMask(before.samMask).values) # target.width * target.height

EditorStateIs(before) ==
    /\ history = before.history
    /\ currentStep = before.currentStep
    /\ mode = before.mode
    /\ samPoints = before.samPoints
    /\ samMask = before.samMask

\* C24: when the filtered mask's length differs from the pixel count of the
\* target image, applySamMask changes no alpha value, pushes no history
\* entry and leaves mode, samPoints and samMask as they were.
InvC24_MaskMismatchChangesNothing ==
    (lastOp.op = "applySamMask" /\ MaskLengthMismatch(lastOp.before)) =>
        /\ EditorStateIs(lastOp.before)
        /\ ~lastOp.applied

\* applySamMask has run with a well-formed 2x2 mask holding background
\* logits on an image of two pixels
WitC24_FourLogitsOnTwoPixels ==
    /\ lastOp.op = "applySamMask"
    /\ MaskLengthMismatch(lastOp.before)
    /\ lastOp.before.samMask.width * lastOp.before.samMask.height
           = Len(lastOp.before.samMask.data)
    /\ Len(lastOp.before.samMask.data) = 4
    /\ \E k \in 1..4 : lastOp.before.samMask.data[k] <= 0
    /\ Len(currentSrc.alpha) = 2
    /\ samMask.present

\* history is non-empty, starts with the initial image and holds the
\* current step
HistoryWellFormed ==
    /\ history # <<>>
    /\ history[1] \in EditorSources
    /\ currentStep \in 0..(Len(history) - 1)

\* C28 as stated: the history is well formed; a pushToHistory drops the
\* entries after the current step, appends the new source and makes it
\* current; handleUndo decrements the step by one and does nothing at step 0
CexC28_PushKeepsEntriesUpToCurrentStep ==
    /\ HistoryWellFormed
    /\ lastOp.op \in {"pushToHistory", "applySamMask"} /\ lastOp.applied =>
           /\ history = Append(SubSeq(lastOp.before.history, 1,
                                      lastOp.before.currentStep + 1), lastOp.src)
           /\ currentStep = Len(history) - 1
    /\ lastOp.op = "handleUndo" =>
           /\ history = lastOp.before.history
           /\ currentStep = IF lastOp.before.currentStep > 0
                            THEN lastOp.before.currentStep - 1
                            ELSE lastOp.before.currentStep
           /\ lastOp.before.currentStep = 0 => EditorStateIs(lastOp.before)

(***************************************************************************)
(* Claims about loadSAMModel.                                              *)
(***************************************************************************)
LoadsInFlight == {id \in DOMAIN loads : LoadInFlight(id)}

\* C25: at most one invocation of loadSAMModel is past the isInitializing
\* guard; a call that arrives while another is loading throws without
\* changing samState; and samState.isInitializing is true exactly while a
\* load is in flight, so it is false after the load succeeds or fails.
InvC25_OneLoadAtATime ==
    /\ Cardinality(LoadsInFlight) <= 1
    /\ \A id \in DOMAIN loads :
           loads[id].duringLoad =>
               /\ loads[id].pc = "threw"
               /\ loads[id].left = loads[id].seen
    /\ samState.isInitializing <=> LoadsInFlight # {}

\* one call threw on arrival while another, since resolved, had its model
\* but not yet its processor, and a third was rejected
WitC25_ThrewWhileProcessorPending ==
    \E i, j, k \in DOMAIN loads :
        /\ loads[i].pc = "threw"
        /\ loads[i].duringLoad
        /\ loads[i].seen.model # NullSam
        /\ loads[i].seen.processor = NullSam
        /\ loads[j].pc = "resolved"
        /\ loads[k].pc = "rejected"
        /\ ~samState.isInitializing

(***************************************************************************)
(* Claims about detectAxis and the gradient peaks.                         *)
(***************************************************************************)
\* what the three detectors that feed the combine step return for an axis
DetectorOutputs(img, isHorizontal) ==
    [limit |-> Limit(img, isHorizontal),
     solid |-> MergedSolidLines(img, isHorizontal),
     bg |-> BgGaps(img, isHorizontal),
     gaps |-> Gaps(img, isHorizontal)]

\* reference images: one step pair with a single surviving peak and two
\* with two peaks, at different lines
PeakReferences ==
    {MkEdgeImage([limit |-> 200, cross |-> 1, horizontal |-> TRUE,
                  steps |-> <<(<<40, 12>>), (<<g, 13>>)>>]) : g \in {54, 90, 100}}

ReferenceRuns ==
    {[outputs |-> DetectorOutputs(img, TRUE),
      edges |-> Edges(img, TRUE),
      result |-> detectAxis(img, TRUE)] : img \in PeakReferences}

\* C26: every position detectAxis returns is a midpoint of the solid-line,
\* background-coverage or variance-gap detector, and an image whose three
\* detector outputs and limit equal those of another image gets the same
\* result, whatever the gradient peaks of the two are.
InvC26_ResultIgnoresGradientPeaks ==
    seamsDone =>
        \A isHorizontal \in BOOLEAN :
            LET out == DetectorOutputs(imageData, isHorizontal)
            IN  /\ Range(AxisSplits(isHorizontal))
                       \subseteq Range(out.solid) \cup Range(out.bg) \cup Range(out.gaps)
                /\ \A ref \in ReferenceRuns :
                       ref.outputs = out => ref.result = AxisSplits(isHorizontal)

\* an image and a reference with the same detector outputs, both with
\* gradient peaks but at different lines, and a non-empty result
WitC26_SameDetectorsOtherPeaks ==
    /\ seamsDone
    /\ \E isHorizontal \in BOOLEAN : \E ref \in ReferenceRuns :
           /\ ref.outputs = DetectorOutputs(imageData, isHorizontal)
           /\ ref.edges # <<>>
           /\ Edges(imageData, isHorizontal) # <<>>
           /\ Edges(imageData, isHorizontal) # ref.edges
           /\ AxisSplits(isHorizontal) # <<>>
           /\ AxisSplits(isHorizontal) = ref.result

\* C27: detectAxis returns at most 8 positions per axis, every position
\* strictly inside (0.02*limit, 0.98*limit) and consecutive positions at
\* least limit/8 apart, so that detection proposes at most 9 strips per axis.
InvC27_AtMostEightSplitsPerAxis ==
    seamsDone =>
        \A isHorizontal \in BOOLEAN :
            LET splits == AxisSplits(isHorizontal)
                limit == Limit(imageData, isHorizontal)
            IN  /\ Len(splits) <= 8
                /\ Len(splits) + 1 <= 9
                /\ StrictlyInside(splits, limit)
                /\ SpacedByEighth(splits, limit)

\* a detection that reaches the bound: 8 positions, 4 lines apart, on an
\* axis of 32 lines
WitC27_EightSplitsOnThirtyTwoLines ==
    /\ seamsDone
    /\ \E isHorizontal \in BOOLEAN :
           /\ Len(AxisSplits(isHorizontal)) = 8
           /\ Limit(imageData, isHorizontal) = 32
           /\ AxisSplits(isHorizontal)[8] - AxisSplits(isHorizontal)[1] = 28

(***************************************************************************)
(* Claims about SplitEditor.                                               *)
(***************************************************************************)
\* the number on the confirm button
ShownCount == (Len(rowSplits) + 1) * (Len(colSplits) + 1)

\* C29 as stated: for the split arrays reached by drag, add and remove, the
\* number of images executeSplits produces is the count on the confirm
\* button, (rowSplits.length + 1) * (colSplits.length + 1)
CexC29_ImagesEqualShownCount ==
    (seamsDone /\ resultImages # NotSplit) => Len(resultImages) = ShownCount

\* splits strictly inside the image and without duplicates
ProperSplits(splits, dimension) ==
    /\ \A k \in 1..Len(splits) : 0 < splits[k] /\ splits[k] < dimension
    /\ StrictlyIncreasing(splits)

\* with proper splits on both axes the two counts agree
CountsAgreeOnProperSplits ==
    (seamsDone /\ resultImages # NotSplit
        /\ ProperSplits(rowSplits, imageData.height)
        /\ ProperSplits(colSplits, imageData.width)) =>
        Len(resultImages) = ShownCount

(***************************************************************************)
(* Claims about the SAM worker protocol.                                   *)
(***************************************************************************)
TerminalTypes == {"modelLoaded", "embeddingsComputed", "maskGenerated", "error"}

\* the terminal reply a request type can end with, besides error
SuccessOf(type) ==
    CASE type = "loadModel" -> {"modelLoaded"}
      [] type = "computeEmbeddings" -> {"embeddingsComputed"}
      [] type = "generateMask" -> {"maskGenerated"}
      [] OTHER -> {}

Terminals(req) == {k \in 1..Len(req.posted) : req.posted[k] \in TerminalTypes}

\* what a request has posted so far: progress messages only from a
\* loadModel, at most one terminal reply, nothing after it, and the terminal
\* reply exactly when the handler has returned
RepliesWellFormed(req) ==
    /\ \A k \in 1..Len(req.posted) :
          \/ req.posted[k] = "progress" /\ req.type = "loadModel"
          \/ req.posted[k] \in SuccessOf(req.type) \cup {"error"}
    /\ Cardinality(Terminals(req)) <= 1
    /\ Terminals(req) \subseteq {Len(req.posted)}
    /\ (req.pc = "done") <=> (Terminals(req) # {})

Replied(id) == requests[id].pc = "done" /\ Cardinality(Terminals(requests[id])) = 1

====
